---------------------------- MODULE Spec2Model ----------------------------
(*************************************************************************)
(* A model of sas_data_generator: the coverage tracker (coverage.py),    *)
(* decision-point extraction (sas_parser.py), the mutator                *)
(* (dataset_generator.py) and the iteration loop of the `run` command    *)
(* (cli.py).                                                             *)
(*                                                                       *)
(* Text is modelled as sequences of one-character strings, so that the   *)
(* marker pattern COV:POINT=([\w:]+) is a scan over characters and not   *)
(* an identity.  A log is a sequence of lines; a line is a marker line   *)
(* ("COV:POINT=" followed by a payload), the sentinel line COV:COMPLETE, *)
(* or any other line.                                                    *)
(*************************************************************************)
EXTENDS Integers, Sequences, FiniteSets, TLC

VARIABLES
    pc,               \* position of the command / of the function applied
    log_text,         \* sas_result.log_text: the log handed to parse_coverage_from_log
    expected_points,  \* instr_result.coverage_points: the expected points
    report,           \* the report of the last parse_coverage_from_log call
    file_reports,     \* run(): file_reports, the reports of the unit so far
    merged,           \* the result of the last merge_coverage_reports call
    sas_files,        \* run(): the sas_files argument
    max_iterations,   \* run(): --max-iterations
    coverage_target,  \* run(): --coverage-target
    dry_run,          \* run(): --dry-run
    unit,             \* the number of files the loop over files_to_process has taken
    parse_result,     \* run(): parse_result of the unit
    datasets,         \* run(): datasets of the unit
    iteration,        \* run(): iteration
    all_reports,      \* run(): all_reports
    exit_code,        \* the exit status of the command, once pc = "exited"
    target_reached,   \* history: the loop of the unit was left by its break
    sas_runs,         \* history: interpreter executions of the unit so far
    mutations,        \* history: mutate_datasets calls of the unit so far
    mutated_out,      \* history: what the last mutate_datasets call returned
    executed,         \* history: the datasets the last interpreter run loaded
    return_code,      \* sas_result.return_code of the last interpreter run
    effects,          \* history: per file taken, what the command did for it
    call_args,        \* the arguments of a helper function applied on its own
    call_result       \* what that function returned

cov_vars_but_pc == <<log_text, expected_points, report, file_reports, merged>>

cov_vars == <<pc, cov_vars_but_pc>>

call_vars == <<call_args, call_result>>

run_vars == <<sas_files, max_iterations, coverage_target, dry_run, unit,
              parse_result, datasets, iteration, all_reports, exit_code,
              target_reached, sas_runs, mutations, mutated_out, executed,
              return_code, effects, call_vars>>

vars == <<cov_vars, run_vars>>

\* the variables of the run command, while no command runs
NoParseResult ==
    [file_path |-> "", blocks |-> <<>>, all_coverage_points |-> <<>>,
     all_variables |-> <<>>, errors |-> <<>>]

RunIdle ==
    /\ sas_files = <<>>
    /\ max_iterations = 0
    /\ coverage_target = 0
    /\ dry_run = FALSE
    /\ unit = 0
    /\ parse_result = NoParseResult
    /\ datasets = <<>>
    /\ iteration = 0
    /\ all_reports = <<>>
    /\ exit_code = 0
    /\ target_reached = FALSE
    /\ sas_runs = 0
    /\ mutations = 0
    /\ mutated_out = <<>>
    /\ executed = <<>>
    /\ return_code = 0
    /\ effects = <<>>
    /\ call_args = <<>>
    /\ call_result = <<>>

--------------------------------------------------------------------------
(* Bounds of the model *)

MaxLogLen == 3        \* lines of a log handed to the parser on its own
MaxMergeArgs == 2     \* reports handed to one merge_coverage_reports call
MaxIter == 2          \* the largest --max-iterations
NumRows == 2          \* --num-rows, the rows of a seed dataset

--------------------------------------------------------------------------
(* Characters and identifiers *)

Digits == <<"0", "1", "2", "3", "4", "5", "6", "7", "8", "9">>

\* the characters \w matches, among those the model writes
WordChars ==
    {"a", "b", "c", "d", "e", "f", "g", "h", "i", "j", "k", "l", "m", "n", "o", "p",
     "q", "r", "s", "t", "u", "v", "w", "x", "y", "z", "_"}
    \cup {Digits[i] : i \in 1..10}

\* the character class [\w:] of _COV_MARKER_RE
IsMarkerIdChar(c) == c \in WordChars \cup {":"}

RECURSIVE Str(_)
\* str(n) for n >= 0: the decimal digits of n
Str(n) == IF n < 10 THEN <<Digits[n + 1]>>
          ELSE Str(n \div 10) \o <<Digits[(n % 10) + 1]>>

\* s[:k]
Take(s, k) == SubSeq(s, 1, IF Len(s) < k THEN Len(s) ELSE k)

Range(s) == {s[i] : i \in DOMAIN s}

--------------------------------------------------------------------------
(* sas_parser.py: CoveragePoint *)

CoveragePointType ==
    {"STEP_ENTRY", "IF_TRUE", "IF_FALSE", "SELECT_WHEN", "SELECT_OTHERWISE",
     "SQL_WHERE", "SQL_CASE_WHEN", "SQL_CASE_ELSE"}

\* A condition text is kept as what the mutator's patterns read out of it:
\* kind "none" is the empty string, "num" a comparison var OP number,
\* "str" an equality with a quoted literal, "other" any other text.
NoCondition == [kind |-> "none"]
NumCondition(v, o, k) == [kind |-> "num", var |-> v, op |-> o, num |-> k]
StrCondition(v, s) == [kind |-> "str", var |-> v, lit |-> s]

CoveragePoint(id, type, line, descr, cond) ==
    [point_id |-> id, point_type |-> type, line_number |-> line,
     description |-> descr, condition |-> cond]

--------------------------------------------------------------------------
(* coverage.py *)

EmptyDict == [x \in {} |-> x]

\* dict.update(new): the entries of new override those of d
DictUpdate(d, new) == new @@ d

\* CoverageReport(...) with the dataclass's fields
CoverageReport(total, hits, hit_ids, missed_ids, detail, complete) ==
    [total_points |-> total, hit_points |-> hits, hit_point_ids |-> hit_ids,
     missed_point_ids |-> missed_ids, points_detail |-> detail,
     is_complete |-> complete]

\* CoverageReport(): every field at its default
DefaultReport == CoverageReport(0, 0, {}, {}, EmptyDict, FALSE)

\* CoverageReport.coverage_pct, kept exact as the fraction <<numerator,
\* denominator>>: 0.0 for no points, else (hit_points / total_points) * 100.0.
\* For total_points < 50 the float compares with every integer target as the
\* exact fraction does.
coverage_pct(r) ==
    IF r.total_points = 0 THEN <<0, 1>>
    ELSE <<r.hit_points * 100, r.total_points>>

\* pct >= target and pct < target, for a fraction pct with denominator > 0
PctGE(pct, target) == pct[1] >= target * pct[2]
PctLT(pct, target) == ~PctGE(pct, target)
\* p <= q for two fractions
PctLE(p, q) == p[1] * q[2] <= q[1] * p[2]

\* One match of _COV_MARKER_RE in a line: group(1) is the longest run of
\* [\w:] characters after "COV:POINT=", and there is no match when that run
\* is empty.  <<>> stands for "no match".
RECURSIVE IdRun(_)
IdRun(payload) ==
    IF payload = <<>> \/ ~IsMarkerIdChar(Head(payload)) THEN <<>>
    ELSE <<Head(payload)>> \o IdRun(Tail(payload))

MarkerMatch(line) ==
    IF line.kind = "marker" THEN IdRun(line.payload) ELSE <<>>

\* the loop over _COV_MARKER_RE.finditer(log_text)
RECURSIVE ScanMarkers(_, _, _)
ScanMarkers(log, all_ids, hit_ids) ==
    IF log = <<>> THEN hit_ids
    ELSE LET point_id == MarkerMatch(Head(log))
         IN  ScanMarkers(Tail(log), all_ids,
                         IF point_id # <<>> /\ point_id \in all_ids
                         THEN hit_ids \cup {point_id}
                         ELSE hit_ids)

\* {cp.point_id: cp for cp in expected_points}: a later point overrides
RECURSIVE DetailOf(_)
DetailOf(points) ==
    IF points = <<>> THEN EmptyDict
    ELSE LET cp == points[Len(points)]
         IN  (cp.point_id :> cp) @@ DetailOf(SubSeq(points, 1, Len(points) - 1))

\* a completion test that takes any log with a line in it for a complete one
HasComplete_nonempty(log) == log # <<>>

\* bool(_COV_COMPLETE_RE.search(log_text))
HasComplete(log) == \E i \in DOMAIN log : log[i].kind = "complete"

\* a parser that records every marker id, expected or not
parse_coverage_from_log_unchecked(log, points) ==
    LET all_ids == {points[i].point_id : i \in DOMAIN points}
        hit_ids == {MarkerMatch(log[i]) : i \in DOMAIN log} \ {<<>>}
    IN  CoverageReport(Cardinality(all_ids), Cardinality(hit_ids), hit_ids,
                       all_ids \ hit_ids, DetailOf(points), HasComplete(log))

parse_coverage_from_log(log, points) ==
    LET all_ids == {points[i].point_id : i \in DOMAIN points}
        detail == DetailOf(points)
        hit_ids == ScanMarkers(log, all_ids, {})
        is_complete == HasComplete(log)
        missed_ids == all_ids \ hit_ids
    IN  CoverageReport(Cardinality(all_ids), Cardinality(hit_ids), hit_ids,
                       missed_ids, detail, is_complete)

--------------------------------------------------------------------------
(* The parser on its own: every log of at most MaxLogLen lines against    *)
(* the point lists of tests/test_coverage.py.                             *)

\* f"{file_id}:{n}"
PointId(file_id, n) == file_id \o <<":">> \o Str(n)

AgeGt65 == NumCondition("age", ">", 65)
ScoreGe80 == NumCondition("score", ">=", 80)

\* the fixture sample_points
sample_points ==
    << CoveragePoint(PointId(<<"f">>, 1), "STEP_ENTRY", 1, "DATA step entry", NoCondition),
       CoveragePoint(PointId(<<"f">>, 2), "IF_TRUE", 3, "IF true", AgeGt65),
       CoveragePoint(PointId(<<"f">>, 3), "IF_FALSE", 3, "IF false", AgeGt65),
       CoveragePoint(PointId(<<"f">>, 4), "SELECT_WHEN", 8, "WHEN", ScoreGe80),
       CoveragePoint(PointId(<<"f">>, 5), "SELECT_OTHERWISE", 10, "OTHERWISE", NoCondition) >>

\* two points that carry the same id
twice_points ==
    << sample_points[1],
       CoveragePoint(PointId(<<"f">>, 1), "IF_TRUE", 3, "IF true", AgeGt65) >>

ParseExpected == {sample_points, SubSeq(sample_points, 1, 2), twice_points, <<>>}

Marker(payload) == [kind |-> "marker", payload |-> payload]
CompleteLine == [kind |-> "complete"]
NoteLine == [kind |-> "note"]

ParseLines ==
    { Marker(PointId(<<"f">>, 1)),
      Marker(PointId(<<"f">>, 2)),
      Marker(PointId(<<"f">>, 1) \o <<" ", "a">>),   \* text follows the id
      Marker(PointId(<<"f">>, 12)),                  \* an id nobody expects
      CompleteLine, NoteLine }

RECURSIVE SeqsUpTo(_, _)
SeqsUpTo(S, n) ==
    IF n = 0 THEN {<<>>}
    ELSE LET shorter == SeqsUpTo(S, n - 1)
         IN  shorter \cup {Append(s, x) : s \in shorter, x \in S}

ParseInit ==
    /\ pc = "parse_input"
    /\ log_text \in SeqsUpTo(ParseLines, MaxLogLen)
    /\ expected_points \in ParseExpected
    /\ report = DefaultReport
    /\ file_reports = <<>>
    /\ merged = DefaultReport
    /\ RunIdle

ParseLog ==
    /\ pc = "parse_input"
    /\ report' = parse_coverage_from_log(log_text, expected_points)
    /\ pc' = "parsed"
    /\ UNCHANGED <<log_text, expected_points, file_reports, merged, run_vars>>

ParseNext == ParseLog

ParseSpec == ParseInit /\ [][ParseNext]_vars

\* the ids of the expected points, and the ids the markers of a log carry
ExpectedIds(points) == {points[i].point_id : i \in DOMAIN points}
MarkerIds(log) == {MarkerMatch(log[i]) : i \in DOMAIN log} \ {<<>>}

\* C1: parse_coverage_from_log returns hit_point_ids = the expected ids that
\* some COV:POINT=<id> marker of the log carries, missed_point_ids = the
\* expected ids minus the hit ids, total_points = the number of distinct
\* expected ids and hit_points = the number of distinct hit ids; so neither a
\* repeated marker nor a marker with an id outside the expected set changes
\* the result, and markers {1,2} of expected {1..5} give 2 of 5, 40 percent,
\* missed {3,4,5}.
C1_ParseReport ==
    pc = "parsed" =>
        LET ids == ExpectedIds(expected_points)
            hits == {e \in ids : \E i \in DOMAIN log_text : MarkerMatch(log_text[i]) = e}
        IN  /\ report.hit_point_ids = hits
            /\ report.missed_point_ids = ids \ hits
            /\ report.total_points = Cardinality(ids)
            /\ report.hit_points = Cardinality(hits)
            /\ (expected_points = sample_points
                /\ MarkerIds(log_text) \cap ids = {PointId(<<"f">>, 1), PointId(<<"f">>, 2)})
               => /\ report.hit_points = 2
                  /\ report.total_points = 5
                  /\ coverage_pct(report) = <<200, 5>>
                  /\ report.missed_point_ids =
                        {PointId(<<"f">>, 3), PointId(<<"f">>, 4), PointId(<<"f">>, 5)}

\* C1 witness: a parsed log that holds the marker of f:1 twice and the marker
\* of an id nobody expects, against the five sample points: one hit of five.
C1_Witness ==
    /\ pc = "parsed"
    /\ expected_points = sample_points
    /\ \E i, j \in DOMAIN log_text : i # j /\ log_text[i] = log_text[j]
                                     /\ MarkerMatch(log_text[i]) = PointId(<<"f">>, 1)
    /\ \E i \in DOMAIN log_text : MarkerMatch(log_text[i]) = PointId(<<"f">>, 12)
    /\ report.hit_points = 1
    /\ report.total_points = 5

--------------------------------------------------------------------------
(* sas_parser.py: extraction.  A source file is kept as what the patterns *)
(* of the extractor find in its text: its DATA steps and PROC SQL blocks, *)
(* each with the IF ... THEN, SELECT/WHEN/OTHERWISE, WHERE and CASE       *)
(* constructs in it, in the order the patterns find them.                 *)

\* the points of the IF/THEN matches of a DATA step: two per match
RECURSIVE IfPoints(_, _, _)
IfPoints(ifs, file_id, counter) ==
    IF ifs = <<>> THEN <<>>
    ELSE LET m == Head(ifs)
         IN  << CoveragePoint(PointId(file_id, counter + 1), "IF_TRUE",
                              m.line, "IF true", m.condition),
                CoveragePoint(PointId(file_id, counter + 2), "IF_FALSE",
                              m.line, "IF false/ELSE", m.condition) >>
             \o IfPoints(Tail(ifs), file_id, counter + 2)

\* the points of the WHEN matches of one SELECT or CASE: one per match
RECURSIVE WhenPoints(_, _, _, _, _)
WhenPoints(whens, type, descr, file_id, counter) ==
    IF whens = <<>> THEN <<>>
    ELSE LET m == Head(whens)
         IN  << CoveragePoint(PointId(file_id, counter + 1), type,
                              m.line, descr, m.condition) >>
             \o WhenPoints(Tail(whens), type, descr, file_id, counter + 1)

\* the points of the SELECT (or CASE) constructs: per construct its WHENs,
\* then one point for its OTHERWISE (or ELSE) if it has one (line 0: none)
RECURSIVE SelectPoints(_, _, _, _, _, _, _)
SelectPoints(selects, when_type, when_descr, other_type, other_descr, file_id, counter) ==
    IF selects = <<>> THEN <<>>
    ELSE LET sel == Head(selects)
             whens == WhenPoints(sel.whens, when_type, when_descr, file_id, counter)
             after == counter + Len(whens)
             other == IF sel.otherwise_line = 0 THEN <<>>
                      ELSE << CoveragePoint(PointId(file_id, after + 1), other_type,
                                            sel.otherwise_line, other_descr, NoCondition) >>
         IN  whens \o other
             \o SelectPoints(Tail(selects), when_type, when_descr, other_type,
                             other_descr, file_id, after + Len(other))

SASBlock(type, name, start_line, end_line, points, variables, input_datasets) ==
    [block_type |-> type, name |-> name, start_line |-> start_line,
     end_line |-> end_line, coverage_points |-> points, variables |-> variables,
     input_datasets |-> input_datasets]

_parse_data_step(step, file_id, counter) ==
    LET entry == << CoveragePoint(PointId(file_id, counter + 1), "STEP_ENTRY",
                                  step.start_line, "DATA step entry", NoCondition) >>
        ifs == IfPoints(step.ifs, file_id, counter + 1)
        sels == SelectPoints(step.selects, "SELECT_WHEN", "WHEN",
                             "SELECT_OTHERWISE", "OTHERWISE branch",
                             file_id, counter + 1 + Len(ifs))
    IN  SASBlock("DATA_STEP", step.name, step.start_line, step.end_line,
                 entry \o ifs \o sels,
                 step.variables, step.input_datasets)

_parse_proc_sql(step, file_id, counter) ==
    LET entry == << CoveragePoint(PointId(file_id, counter + 1), "STEP_ENTRY",
                                  step.start_line, "PROC SQL entry", NoCondition) >>
        wheres == WhenPoints(step.wheres, "SQL_WHERE", "SQL WHERE", file_id, counter + 1)
        cases == SelectPoints(step.cases, "SQL_CASE_WHEN", "CASE WHEN",
                              "SQL_CASE_ELSE", "CASE ELSE branch",
                              file_id, counter + 1 + Len(wheres))
    IN  SASBlock("PROC_SQL", "SQL", step.start_line, step.end_line,
                 entry \o wheres \o cases,
                 step.variables, step.input_datasets)

\* the loop over the DATA step matches, the counter shared
RECURSIVE ParseDataSteps(_, _, _)
ParseDataSteps(steps, file_id, counter) ==
    IF steps = <<>> THEN <<>>
    ELSE LET block == _parse_data_step(Head(steps), file_id, counter)
         IN  <<block>> \o ParseDataSteps(Tail(steps), file_id,
                                         counter + Len(block.coverage_points))

\* the loop over the PROC SQL matches, the counter shared
RECURSIVE ParseProcSqls(_, _, _)
ParseProcSqls(steps, file_id, counter) ==
    IF steps = <<>> THEN <<>>
    ELSE LET block == _parse_proc_sql(Head(steps), file_id, counter)
         IN  <<block>> \o ParseProcSqls(Tail(steps), file_id,
                                        counter + Len(block.coverage_points))

\* result.all_coverage_points: the points of the blocks, block after block
RECURSIVE AllPoints(_)
AllPoints(blocks) ==
    IF blocks = <<>> THEN <<>>
    ELSE Head(blocks).coverage_points \o AllPoints(Tail(blocks))

\* result.all_variables before deduplication
RECURSIVE AllVariables(_)
AllVariables(blocks) ==
    IF blocks = <<>> THEN <<>>
    ELSE Head(blocks).variables \o AllVariables(Tail(blocks))

\* deduplication by lower-cased name: the first of a name is kept, unless it
\* is of unknown type and a later one is not
RECURSIVE DedupVariables(_, _)
DedupVariables(variables, seen) ==
    IF variables = <<>> THEN seen
    ELSE LET v == Head(variables)
             at == {i \in DOMAIN seen : seen[i].name = v.name}
             next == IF at = {} THEN Append(seen, v)
                     ELSE LET i == CHOOSE j \in at : TRUE
                          IN  IF seen[i].inferred_type = "unknown"
                                 /\ v.inferred_type # "unknown"
                              THEN [seen EXCEPT ![i] = v]
                              ELSE seen
         IN  DedupVariables(Tail(variables), next)

ParseResult(path, blocks, points, variables, errors) ==
    [file_path |-> path, blocks |-> blocks, all_coverage_points |-> points,
     all_variables |-> variables, errors |-> errors]

MaxStemLen == 20

parse_sas_file(file) ==
    IF ~file.exists
    THEN ParseResult(file.path, <<>>, <<>>, <<>>, <<"Cannot read file">>)
    ELSE LET file_id == Take(file.stem, MaxStemLen)
             data_blocks == ParseDataSteps(file.data_steps, file_id, 0)
             sql_blocks == ParseProcSqls(file.proc_sqls, file_id,
                                         Len(AllPoints(data_blocks)))
             blocks == data_blocks \o sql_blocks
         IN  ParseResult(file.path, blocks, AllPoints(blocks),
                         DedupVariables(AllVariables(blocks), <<>>), <<>>)

--------------------------------------------------------------------------
(* The source files of the model *)

Variable(name, type) == [name |-> name, inferred_type |-> type]

IfMatch(line, cond) == [line |-> line, condition |-> cond]
Select(whens, otherwise_line) == [whens |-> whens, otherwise_line |-> otherwise_line]

DataStep(name, start_line, end_line, inputs, variables, ifs, selects) ==
    [name |-> name, start_line |-> start_line, end_line |-> end_line,
     input_datasets |-> inputs,
     variables |-> variables, ifs |-> ifs, selects |-> selects]

ProcSql(start_line, end_line, inputs, variables, wheres, cases) ==
    [start_line |-> start_line, end_line |-> end_line, input_datasets |-> inputs,
     variables |-> variables, wheres |-> wheres, cases |-> cases]

SourceFile(path, stem, exists, lines, data_steps, proc_sqls) ==
    [path |-> path, stem |-> stem, exists |-> exists, lines |-> lines,
     data_steps |-> data_steps, proc_sqls |-> proc_sqls]

\* A line of program text is kept as its words and punctuation marks, in
\* lower case, which is what the patterns of the instrumenter look at; a
\* line the instrumenter inserts carries the id of its point besides.
SourceLine(tokens) == [tokens |-> tokens, point_id |-> <<>>]

Text(token_lines) == [i \in DOMAIN token_lines |-> SourceLine(token_lines[i])]

\* The line an IfMatch carries is the line the extractor records, that of
\* the character at match.start() + if_match.start(): the second offset is
\* counted in the body of the step, so the character lies before the
\* construct by the length of the DATA statement, here on the line above.

\* p/a.sas
FileA ==
    SourceFile("p/a.sas", <<"a">>, TRUE,
               Text(<< <<"data", "out", ";">>,
                       <<"set", "people", ";">>,
                       <<"if", "age", ">", "65", "then", "grp", "=", "1", ";">>,
                       <<"run", ";">> >>),
               << DataStep("out", 1, 4, <<"people">>, <<Variable("age", "numeric")>>,
                           <<IfMatch(2, AgeGt65)>>, <<>>) >>,
               <<>>)

\* a second file of the same stem, in another directory
FileA2 ==
    SourceFile("q/a.sas", <<"a">>, TRUE,
               Text(<< <<"proc", "sql", ";">>,
                       <<"create", "table", "t", "as", "select", "*", "from", "scores",
                         "where", "score", ">=", "80", ";">>,
                       <<"quit", ";">> >>),
               <<>>,
               << ProcSql(1, 3, <<"scores">>, <<Variable("score", "numeric")>>,
                          <<IfMatch(2, ScoreGe80)>>, <<>>) >>)

\* p/b.sas
FileB ==
    SourceFile("p/b.sas", <<"b">>, TRUE,
               Text(<< <<"data", "out", ";">>, <<"set", "scores", ";">>, <<"run", ";">> >>),
               << DataStep("out", 1, 3, <<"scores">>, <<>>, <<>>, <<>>) >>,
               <<>>)

\* a file with neither a DATA step nor a PROC SQL block
FileNoPoints ==
    SourceFile("p/z.sas", <<"z">>, TRUE, Text(<< <<"title", "'x'", ";">> >>), <<>>, <<>>)

\* a path that names no file
FileMissing == SourceFile("p/b_.sas", <<"b", "_">>, FALSE, <<>>, <<>>, <<>>)

--------------------------------------------------------------------------
(* coverage.py: merge_coverage_reports *)

\* the loop over the reports: (all_detail, all_ids, all_hits) updated in turn
RECURSIVE MergeLoop(_, _)
MergeLoop(reports, acc) ==
    IF reports = <<>> THEN acc
    ELSE LET r == Head(reports)
         IN  MergeLoop(Tail(reports),
                       [all_detail |-> DictUpdate(acc.all_detail, r.points_detail),
                        all_ids |-> acc.all_ids \cup (r.hit_point_ids \cup r.missed_point_ids),
                        all_hits |-> acc.all_hits \cup r.hit_point_ids])

\* a merge that keeps the hits of the last report only
merge_coverage_reports_last(reports) ==
    IF reports = <<>> THEN DefaultReport
    ELSE LET acc == MergeLoop(reports, [all_detail |-> EmptyDict, all_ids |-> {},
                                        all_hits |-> {}])
             hits == reports[Len(reports)].hit_point_ids
         IN  CoverageReport(Cardinality(acc.all_ids), Cardinality(hits), hits,
                            acc.all_ids \ hits, acc.all_detail,
                            reports[Len(reports)].is_complete)

\* a merge that counts the hits of every report, a repeated id more than once
RECURSIVE SumHits(_)
SumHits(reports) ==
    IF reports = <<>> THEN 0 ELSE Head(reports).hit_points + SumHits(Tail(reports))

merge_coverage_reports_sum(reports) ==
    IF reports = <<>> THEN DefaultReport
    ELSE LET acc == MergeLoop(reports, [all_detail |-> EmptyDict, all_ids |-> {},
                                        all_hits |-> {}])
         IN  CoverageReport(Cardinality(acc.all_ids), SumHits(reports), acc.all_hits,
                            acc.all_ids \ acc.all_hits, acc.all_detail,
                            \E i \in DOMAIN reports : reports[i].is_complete)

\* a merge that counts a point as hit only if every report hit it
merge_coverage_reports_all(reports) ==
    IF reports = <<>> THEN DefaultReport
    ELSE LET acc == MergeLoop(reports, [all_detail |-> EmptyDict, all_ids |-> {},
                                        all_hits |-> {}])
             hits == {p \in acc.all_hits : \A i \in DOMAIN reports : p \in reports[i].hit_point_ids}
         IN  CoverageReport(Cardinality(acc.all_ids), Cardinality(hits), hits,
                            acc.all_ids \ hits, acc.all_detail,
                            \E i \in DOMAIN reports : reports[i].is_complete)

\* a merge that keeps as missed every point some report missed
merge_coverage_reports_keep_missed(reports) ==
    IF reports = <<>> THEN DefaultReport
    ELSE LET acc == MergeLoop(reports, [all_detail |-> EmptyDict, all_ids |-> {},
                                        all_hits |-> {}])
             missed == UNION {reports[i].missed_point_ids : i \in DOMAIN reports}
         IN  CoverageReport(Cardinality(acc.all_ids), Cardinality(acc.all_hits),
                            acc.all_hits, missed, acc.all_detail,
                            \E i \in DOMAIN reports : reports[i].is_complete)

merge_coverage_reports(reports) ==
    IF reports = <<>> THEN DefaultReport
    ELSE LET acc == MergeLoop(reports, [all_detail |-> EmptyDict, all_ids |-> {},
                                        all_hits |-> {}])
             missed == acc.all_ids \ acc.all_hits
         IN  CoverageReport(Cardinality(acc.all_ids), Cardinality(acc.all_hits),
                            acc.all_hits, missed, acc.all_detail,
                            \E i \in DOMAIN reports : reports[i].is_complete)

--------------------------------------------------------------------------
(* dataset_generator.py.  A DataFrame is its column names and its rows, a *)
(* row holding one value per column; a value is a number, a string or the *)
(* missing value NaN.                                                     *)

Num(v) == [num |-> v]
StrVal(s) == [str |-> s]
NaN == [nan |-> TRUE]

NoPath == [dir |-> "", iter |-> 0]

GeneratedDataset(name, columns, rows, csv_path, notes) ==
    [name |-> name, columns |-> columns, rows |-> rows, csv_path |-> csv_path,
     generation_notes |-> notes]

\* the operators the comparison pattern of the mutator and of the seeder
\* accepts between a name and a number: (>=?|<=?|=|ne|eq|gt|lt|ge|le)
PatternOps == {">", ">=", "<", "<=", "=", "ne", "eq", "gt", "lt", "ge", "le"}

_value_to_satisfy(operator, threshold) ==
    IF operator \in {">", "gt"} THEN threshold + 1
    ELSE IF operator \in {">=", "ge"} THEN threshold
    ELSE IF operator \in {"<", "lt"} THEN threshold - 1
    ELSE IF operator \in {"<=", "le"} THEN threshold
    ELSE IF operator \in {"=", "eq"} THEN threshold
    ELSE IF operator \in {"ne"} THEN threshold + 1
    ELSE threshold

_value_to_violate(operator, threshold) ==
    IF operator \in {">", "gt"} THEN threshold - 1
    ELSE IF operator \in {">=", "ge"} THEN threshold - 1
    ELSE IF operator \in {"<", "lt"} THEN threshold + 1
    ELSE IF operator \in {"<=", "le"} THEN threshold + 1
    ELSE IF operator \in {"=", "eq"} THEN threshold + 1
    ELSE IF operator \in {"ne"} THEN threshold
    ELSE threshold + 1

\* the numbers around the threshold of a comparison
_extract_threshold_values(condition) ==
    IF condition.kind = "num" /\ condition.op \in PatternOps
    THEN IF condition.op = "ne"
         THEN <<condition.num, condition.num + 1>>
         ELSE <<condition.num - 1, condition.num, condition.num + 1>>
    ELSE <<>>

\* the integers that open _NUMERIC_EDGE_VALUES
NumericEdgeValues == <<0, 1, -1>>

RECURSIVE ThresholdsOf(_)
ThresholdsOf(conditions) ==
    IF conditions = <<>> THEN <<>>
    ELSE _extract_threshold_values(Head(conditions)) \o ThresholdsOf(Tail(conditions))

\* The values of a numeric column.  With num_rows no larger than the number
\* of candidate values each value is rng.choice(seed_values), a fixed
\* function of the seed: the model takes the draw that picks the candidates
\* in their order.  num_rows <= 3, so no value is set to NaN (num_rows > 5).
_generate_column_values(var, num_rows, conditions) ==
    LET seed_values == ThresholdsOf(conditions) \o NumericEdgeValues
    IN  [i \in 1..num_rows |-> Num(seed_values[i])]

\* dataset_vars: the names of the input datasets, in the order met
RECURSIVE AppendNew(_, _)
AppendNew(names, more) ==
    IF more = <<>> THEN names
    ELSE AppendNew(IF Head(more) \in Range(names) THEN names
                   ELSE Append(names, Head(more)), Tail(more))

RECURSIVE InputDatasetNames(_, _)
InputDatasetNames(blocks, names) ==
    IF blocks = <<>> THEN names
    ELSE InputDatasetNames(Tail(blocks), AppendNew(names, Head(blocks).input_datasets))

\* the conditions of the points of a block
RECURSIVE ConditionsOf(_)
ConditionsOf(points) ==
    IF points = <<>> THEN <<>>
    ELSE (IF Head(points).condition.kind # "none"
          THEN <<Head(points).condition>> ELSE <<>>)
         \o ConditionsOf(Tail(points))

\* dataset_vars[name] and dataset_conditions[name]
RECURSIVE DatasetVars(_, _)
DatasetVars(blocks, name) ==
    IF blocks = <<>> THEN <<>>
    ELSE (IF name \in Range(Head(blocks).input_datasets)
          THEN Head(blocks).variables ELSE <<>>)
         \o DatasetVars(Tail(blocks), name)

RECURSIVE DatasetConditions(_, _)
DatasetConditions(blocks, name) ==
    IF blocks = <<>> THEN <<>>
    ELSE (IF name \in Range(Head(blocks).input_datasets)
          THEN ConditionsOf(Head(blocks).coverage_points) ELSE <<>>)
         \o DatasetConditions(Tail(blocks), name)

\* the conditions that name the variable
RECURSIVE ConditionsWith(_, _)
ConditionsWith(conditions, var) ==
    IF conditions = <<>> THEN <<>>
    ELSE (IF Head(conditions).kind \in {"num", "str"} /\ Head(conditions).var = var.name
          THEN <<Head(conditions)>> ELSE <<>>)
         \o ConditionsWith(Tail(conditions), var)

\* one seed dataset: no column and no row without variables, else num_rows
\* rows of one value per variable
SeedDataset(name, variables, conditions, num_rows) ==
    LET unique_vars == DedupVariables(variables, <<>>)
    IN  IF unique_vars = <<>>
        THEN GeneratedDataset(name, <<>>, <<>>, NoPath, <<"No variables detected">>)
        ELSE LET cols == [j \in DOMAIN unique_vars |->
                            _generate_column_values(unique_vars[j], num_rows,
                                ConditionsWith(conditions, unique_vars[j]))]
             IN  GeneratedDataset(name,
                    [j \in DOMAIN unique_vars |-> unique_vars[j].name],
                    [i \in 1..num_rows |-> [j \in DOMAIN unique_vars |-> cols[j][i]]],
                    NoPath, <<"Seed dataset">>)

generate_seed_datasets(result, num_rows) ==
    LET names == InputDatasetNames(result.blocks, <<>>)
    IN  IF names = <<>>
        THEN IF result.all_variables # <<>>
             THEN << SeedDataset("input", result.all_variables,
                                 ConditionsOf(result.all_coverage_points), num_rows) >>
             ELSE <<>>
        ELSE [n \in DOMAIN names |->
                SeedDataset(names[n], DatasetVars(result.blocks, names[n]),
                            DatasetConditions(result.blocks, names[n]), num_rows)]

\* _add_targeted_rows: the rows it appends for one condition, none or one
\* row that assigns one column
_add_targeted_rows(condition, columns, target_true) ==
    IF condition.kind = "num" /\ condition.op \in PatternOps
       /\ condition.var \in Range(columns)
    THEN << [col |-> condition.var,
             value |-> Num(IF target_true
                           THEN _value_to_satisfy(condition.op, condition.num)
                           ELSE _value_to_violate(condition.op, condition.num))] >>
    ELSE IF condition.kind = "str" /\ condition.var \in Range(columns)
    THEN << [col |-> condition.var,
             value |-> StrVal(IF target_true THEN condition.lit ELSE "ZZZZ_NOMATCH")] >>
    ELSE <<>>

ExtremeValues == {999999, -999999, 0}

\* _add_edge_case_rows: a row of missing values and a row of extreme values,
\* extreme[j] being rng.choice([999999, -999999, 0]) for column j
_add_edge_case_rows(columns, extreme) ==
    << [j \in DOMAIN columns |-> NaN],
       [j \in DOMAIN columns |-> Num(extreme[j])] >>

\* pd.DataFrame(new_rows) aligned on the columns of the dataset: a column a
\* row does not assign holds NaN
AlignRow(row, columns) ==
    IF DOMAIN row = {"col", "value"}
    THEN [j \in DOMAIN columns |-> IF columns[j] = row.col THEN row.value ELSE NaN]
    ELSE row

\* coverage_report.missed_points, in the order `order` in which the set
\* missed_point_ids is iterated
RECURSIVE missed_points(_, _)
missed_points(coverage_report, order) ==
    IF order = <<>> THEN <<>>
    ELSE (IF Head(order) \in DOMAIN coverage_report.points_detail
          THEN <<coverage_report.points_detail[Head(order)]>> ELSE <<>>)
         \o missed_points(coverage_report, Tail(order))

\* the loop over the missed points, for one dataset: the new rows
RECURSIVE NewRows(_, _, _)
NewRows(missed, columns, extreme) ==
    IF missed = <<>> THEN <<>>
    ELSE LET cp == Head(missed)
             rows ==
                IF cp.condition.kind = "none" THEN <<>>
                ELSE IF cp.point_type = "IF_TRUE"
                THEN _add_targeted_rows(cp.condition, columns, TRUE)
                ELSE IF cp.point_type = "IF_FALSE"
                THEN _add_targeted_rows(cp.condition, columns, FALSE)
                ELSE IF cp.point_type \in {"SELECT_WHEN", "SQL_CASE_WHEN"}
                THEN _add_targeted_rows(cp.condition, columns, TRUE)
                ELSE IF cp.point_type \in {"SELECT_OTHERWISE", "SQL_CASE_ELSE"}
                THEN _add_edge_case_rows(columns, extreme)
                ELSE <<>>
         IN  rows \o NewRows(Tail(missed), columns, extreme)

\* a mutation that keeps the new rows only
MutateOne_replace(ds, missed, extreme) ==
    LET new_rows == NewRows(missed, ds.columns, extreme)
    IN  IF new_rows # <<>>
        THEN GeneratedDataset(ds.name, ds.columns,
                 [i \in DOMAIN new_rows |-> AlignRow(new_rows[i], ds.columns)],
                 NoPath,
                 Append(ds.generation_notes, "Mutated: added targeted rows"))
        ELSE ds

MutateOne(ds, missed, extreme) ==
    LET new_rows == NewRows(missed, ds.columns, extreme)
    IN  IF new_rows # <<>>
        THEN GeneratedDataset(ds.name, ds.columns,
                 ds.rows \o [i \in DOMAIN new_rows |-> AlignRow(new_rows[i], ds.columns)],
                 NoPath,
                 Append(ds.generation_notes, "Mutated: added targeted rows"))
        ELSE ds

mutate_datasets(dss, coverage_report, order, extreme) ==
    LET missed == missed_points(coverage_report, order)
    IN  IF missed = <<>> THEN dss
        ELSE [d \in DOMAIN dss |-> MutateOne(dss[d], missed, extreme)]

\* export_dataset for every dataset: writes the files and sets csv_path
ExportPath(dir, iter) == [dir |-> dir, iter |-> iter]

export_dataset(ds, path) == [ds EXCEPT !.csv_path = path]

\* the orders in which a set can be iterated
Orders(S) ==
    {s \in [1..Cardinality(S) -> S] : \A i, j \in 1..Cardinality(S) : s[i] = s[j] => i = j}

--------------------------------------------------------------------------
(* The merge on its own: the reports handed to it are parsed from logs of *)
(* the model's source files, or are the result of an earlier merge.       *)

\* the log of a run that hit the points of `points` with an id in `hit`, in
\* the order of the points, and ended with the sentinel or without it
RECURSIVE MarkerLines(_, _)
MarkerLines(points, hit) ==
    IF points = <<>> THEN <<>>
    ELSE (IF Head(points).point_id \in hit
          THEN <<Marker(Head(points).point_id)>> ELSE <<>>)
         \o MarkerLines(Tail(points), hit)

LogOf(points, hit, complete) ==
    MarkerLines(points, hit) \o (IF complete THEN <<CompleteLine>> ELSE <<>>)

MergeFiles == {FileA, FileA2, FileB}

MergeInit ==
    /\ pc = "merge_input"
    /\ log_text = <<>>
    /\ expected_points = <<>>
    /\ report = DefaultReport
    /\ file_reports = <<>>
    /\ merged = DefaultReport
    /\ RunIdle

\* one more report, parsed from a log of one of the files
MergeAddParsed ==
    /\ pc = "merge_input"
    /\ Len(file_reports) < MaxMergeArgs
    /\ \E file \in MergeFiles :
          LET points == parse_sas_file(file).all_coverage_points
          IN  \E hit \in SUBSET ExpectedIds(points), complete \in BOOLEAN :
                 file_reports' = Append(file_reports,
                     parse_coverage_from_log(LogOf(points, hit, complete), points))
    /\ UNCHANGED <<pc, log_text, expected_points, report, merged, run_vars>>

\* merge_coverage_reports(*file_reports)
MergeCall ==
    /\ pc = "merge_input"
    /\ merged' = merge_coverage_reports(file_reports)
    /\ pc' = "merged"
    /\ UNCHANGED <<log_text, expected_points, report, file_reports, run_vars>>

\* the merged report becomes the first report of the next merge
MergeFeed ==
    /\ pc = "merged"
    /\ file_reports' = <<merged>>
    /\ pc' = "merge_input"
    /\ UNCHANGED <<log_text, expected_points, report, merged, run_vars>>

MergeNext == MergeAddParsed \/ MergeCall \/ MergeFeed

MergeSpec == MergeInit /\ [][MergeNext]_vars

ReportIds(r) == r.hit_point_ids \cup r.missed_point_ids

\* C2: merge_coverage_reports returns a report in which a point is hit iff
\* some input report hit it: hit_point_ids is the union of the inputs' hit
\* ids, the id universe the union of the inputs' hit and missed ids,
\* missed_point_ids the universe minus the hits, is_complete the OR of the
\* inputs' is_complete, total_points and hit_points the sizes of the universe
\* and of the hit set; merging no report gives total_points = 0.
C2_MergeReport ==
    pc = "merged" =>
        LET universe == UNION {ReportIds(file_reports[i]) : i \in DOMAIN file_reports}
            hits == UNION {file_reports[i].hit_point_ids : i \in DOMAIN file_reports}
        IN  /\ \A p \in universe :
                  p \in merged.hit_point_ids
                     <=> \E i \in DOMAIN file_reports : p \in file_reports[i].hit_point_ids
            /\ merged.hit_point_ids = hits
            /\ ReportIds(merged) = universe
            /\ merged.missed_point_ids = universe \ hits
            /\ merged.is_complete = (\E i \in DOMAIN file_reports : file_reports[i].is_complete)
            /\ merged.total_points = Cardinality(universe)
            /\ merged.hit_points = Cardinality(hits)
            /\ file_reports = <<>> => merged.total_points = 0

\* C2 witness: a merge of two reports in which a point is hit by the first
\* report only and another point by the second only.
C2_Witness ==
    /\ pc = "merged"
    /\ Len(file_reports) = 2
    /\ file_reports[1].hit_point_ids \ file_reports[2].hit_point_ids # {}
    /\ file_reports[2].hit_point_ids \ file_reports[1].hit_point_ids # {}
    /\ file_reports[1].missed_point_ids \cap file_reports[2].hit_point_ids # {}
    /\ merged.hit_points = 2

\* C9: merge_coverage_reports is idempotent: for every report r that a parse
\* or an earlier merge produced, merge(r) and merge(r, r) are equal in every
\* field and equal r.
C9_MergeIdempotent ==
    /\ \A i \in DOMAIN file_reports :
          LET r == file_reports[i]
          IN  /\ merge_coverage_reports(<<r>>) = merge_coverage_reports(<<r, r>>)
              /\ merge_coverage_reports(<<r>>) = r
    /\ (pc = "merged" /\ file_reports # <<>>
        /\ \A i \in DOMAIN file_reports : file_reports[i] = file_reports[1])
       => merged = file_reports[1]

\* C9 witness: the merge of a report with itself, the report being itself the
\* result of a merge with hit and missed points.
C9_Witness ==
    /\ pc = "merged"
    /\ Len(file_reports) = 2
    /\ file_reports[1] = file_reports[2]
    /\ file_reports[1].hit_point_ids # {}
    /\ file_reports[1].missed_point_ids # {}
    /\ merged = file_reports[1]

\* C10: merge_coverage_reports is commutative and associative in every field
\* of the result, points_detail included, also for reports that carry
\* different detail records for one point id.
C10_MergeCommutativeAssociative ==
    \A i, j \in DOMAIN file_reports :
        LET a == file_reports[i]
            b == file_reports[j]
            c == merged
        IN  /\ merge_coverage_reports(<<a, b>>) = merge_coverage_reports(<<b, a>>)
            /\ merge_coverage_reports(<<merge_coverage_reports(<<a, b>>), c>>)
                  = merge_coverage_reports(<<a, merge_coverage_reports(<<b, c>>)>>)
            /\ merge_coverage_reports(<<a, merge_coverage_reports(<<b, c>>)>>)
                  = merge_coverage_reports(<<a, b, c>>)

--------------------------------------------------------------------------
(* cli.py: the run command, given files and neither a project directory   *)
(* nor include paths.  One action per step of the command; the interpreter *)
(* and the file system are the environment.                               *)

\* sas_instrumenter.py.  Line indices are those of the code: the first line
\* of a list has index 0.

\* re.search(r"(?i)\bWORD\b", line), and `";" in line`
HasWord(line, word) == word \in Range(line.tokens)

\* re.search of two words in a row: \bTHEN\s+DO\b, \bEND\s*;
HasPair(line, first, second) ==
    \E i \in 1..(Len(line.tokens) - 1) :
        line.tokens[i] = first /\ line.tokens[i + 1] = second

\* put "COV:POINT=<id>";
_make_put_statement(point_id) ==
    [tokens |-> <<"put", "COV:POINT=", ";">>, point_id |-> point_id]

\* else put "COV:POINT=<id>";
ElsePutStatement(point_id) ==
    [tokens |-> <<"else", "put", "COV:POINT=", ";">>, point_id |-> point_id]

\* %_cov_hit(<id>)
_make_macro_call(point_id) == [tokens |-> <<"%_cov_hit">>, point_id |-> point_id]

Insertion(at, line) == [at |-> at, line |-> line]

Min(a, b) == IF a <= b THEN a ELSE b
Max(a, b) == IF a >= b THEN a ELSE b

\* max(0, min(relative_line, len(lines) - 1))
TargetLine(cp, block, lines) ==
    Max(0, Min(cp.line_number - block.start_line, Len(lines) - 1))

\* the first index of range(target, min(target + window, len(lines))) whose
\* line holds the word, or -1
FirstWithWord(lines, word, target, window) ==
    LET found == {i \in target..(Min(target + window, Len(lines)) - 1) :
                     HasWord(lines[i + 1], word)}
    IN  IF found = {} THEN -1 ELSE CHOOSE i \in found : \A k \in found : i <= k

\* the loop that looks for the END; that closes the DO of line i: the index
\* of that line, or -1
RECURSIVE MatchingEnd(_, _, _)
MatchingEnd(lines, j, depth) ==
    IF j >= Len(lines) THEN -1
    ELSE LET opened == IF HasWord(lines[j + 1], "do") THEN depth + 1 ELSE depth
             closed == IF HasPair(lines[j + 1], "end", ";") THEN opened - 1 ELSE opened
         IN  IF HasPair(lines[j + 1], "end", ";") /\ closed = 0 THEN j
             ELSE MatchingEnd(lines, j + 1, closed)

\* the insertions for one point of a DATA step: none or one
PointInsertions(cp, block, lines) ==
    LET target == TargetLine(cp, block, lines)
    IN  IF cp.point_type = "STEP_ENTRY"
        THEN << Insertion(1, _make_put_statement(cp.point_id)) >>
        ELSE IF cp.point_type = "IF_TRUE"
        THEN LET i == FirstWithWord(lines, "then", target, 3)
             IN  IF i = -1 THEN <<>>
                 ELSE << Insertion(i + 1, _make_put_statement(cp.point_id)) >>
        ELSE IF cp.point_type = "IF_FALSE"
        THEN LET e == FirstWithWord(lines, "else", target, 10)
                 t == FirstWithWord(lines, "then", target, 15)
             IN  IF e # -1
                 THEN << Insertion(e + 1, _make_put_statement(cp.point_id)) >>
                 ELSE IF t = -1 THEN <<>>
                 ELSE IF HasPair(lines[t + 1], "then", "do")
                 THEN LET j == MatchingEnd(lines, t + 1, 1)
                      IN  IF j = -1 THEN <<>>
                          ELSE << Insertion(j + 1, ElsePutStatement(cp.point_id)) >>
                 ELSE LET semis == {j \in t..(Len(lines) - 1) : HasWord(lines[j + 1], ";")}
                      IN  IF semis = {} THEN <<>>
                          ELSE << Insertion((CHOOSE j \in semis : \A k \in semis : j <= k) + 1,
                                            ElsePutStatement(cp.point_id)) >>
        ELSE IF cp.point_type = "SELECT_WHEN"
        THEN LET i == FirstWithWord(lines, "when", target, 3)
             IN  IF i = -1 THEN <<>>
                 ELSE << Insertion(i + 1, _make_put_statement(cp.point_id)) >>
        ELSE IF cp.point_type = "SELECT_OTHERWISE"
        THEN LET i == FirstWithWord(lines, "otherwise", target, 3)
             IN  IF i = -1 THEN <<>>
                 ELSE << Insertion(i + 1, _make_put_statement(cp.point_id)) >>
        ELSE <<>>

\* the insertions for one point of a PROC SQL block
SqlPointInsertions(cp, block, lines) ==
    IF cp.point_type = "STEP_ENTRY"
    THEN << Insertion(1, _make_macro_call(cp.point_id)) >>
    ELSE IF cp.point_type \in {"SQL_WHERE", "SQL_CASE_WHEN", "SQL_CASE_ELSE"}
    THEN << Insertion(TargetLine(cp, block, lines), _make_macro_call(cp.point_id)) >>
    ELSE <<>>

\* the insertions left in the order they were collected
SortInsertions_unsorted(insertions) == insertions

\* insertions.sort(key=lambda x: x[0], reverse=True): the larger index
\* first, insertions of one index in the order they were collected
RECURSIVE SortInsertions(_)
SortInsertions(insertions) ==
    IF insertions = <<>> THEN <<>>
    ELSE LET top == CHOOSE a \in {insertions[i].at : i \in DOMAIN insertions} :
                       \A i \in DOMAIN insertions : insertions[i].at <= a
             IsTop(x) == x.at = top
             IsLower(x) == x.at # top
         IN  SelectSeq(insertions, IsTop) \o SortInsertions(SelectSeq(insertions, IsLower))

\* insertions that take the place of the line at their index
RECURSIVE ApplyInsertions_overwrite(_, _)
ApplyInsertions_overwrite(lines, insertions) ==
    IF insertions = <<>> THEN lines
    ELSE LET line_idx == Min(Head(insertions).at, Len(lines))
         IN  ApplyInsertions_overwrite(SubSeq(lines, 1, line_idx) \o <<Head(insertions).line>>
                                          \o SubSeq(lines, line_idx + 2, Len(lines)),
                                       Tail(insertions))

\* lines.insert(min(line_idx, len(lines)), code), insertion after insertion
RECURSIVE ApplyInsertions(_, _)
ApplyInsertions(lines, insertions) ==
    IF insertions = <<>> THEN lines
    ELSE LET line_idx == Min(Head(insertions).at, Len(lines))
         IN  ApplyInsertions(SubSeq(lines, 1, line_idx) \o <<Head(insertions).line>>
                                \o SubSeq(lines, line_idx + 1, Len(lines)),
                             Tail(insertions))

RECURSIVE DataStepInsertions(_, _, _)
DataStepInsertions(points, block, lines) ==
    IF points = <<>> THEN <<>>
    ELSE PointInsertions(Head(points), block, lines)
         \o DataStepInsertions(Tail(points), block, lines)

RECURSIVE ProcSqlInsertions(_, _, _)
ProcSqlInsertions(points, block, lines) ==
    IF points = <<>> THEN <<>>
    ELSE SqlPointInsertions(Head(points), block, lines)
         \o ProcSqlInsertions(Tail(points), block, lines)

_instrument_data_step(block, lines) ==
    ApplyInsertions(lines,
        SortInsertions(DataStepInsertions(block.coverage_points, block, lines)))

_instrument_proc_sql(block, lines) ==
    ApplyInsertions(lines,
        SortInsertions(ProcSqlInsertions(block.coverage_points, block, lines)))

\* sorted(parse_result.blocks, key=lambda b: b.start_line, reverse=True)
RECURSIVE SortBlocks(_)
SortBlocks(blocks) ==
    IF blocks = <<>> THEN <<>>
    ELSE LET top == CHOOSE a \in {blocks[i].start_line : i \in DOMAIN blocks} :
                       \A i \in DOMAIN blocks : blocks[i].start_line <= a
             IsTop(b) == b.start_line = top
             IsLower(b) == b.start_line # top
         IN  SelectSeq(blocks, IsTop) \o SortBlocks(SelectSeq(blocks, IsLower))

\* the loop over the sorted blocks: the slice of a block is replaced by its
\* instrumented lines (a slice ends with the list at the latest)
RECURSIVE InstrumentBlocks(_, _)
InstrumentBlocks(blocks_sorted, code_lines) ==
    IF blocks_sorted = <<>> THEN code_lines
    ELSE LET block == Head(blocks_sorted)
             block_start_idx == Min(block.start_line - 1, Len(code_lines))
             block_end_idx == Max(block_start_idx, Min(block.end_line, Len(code_lines)))
             block_lines == SubSeq(code_lines, block_start_idx + 1, block_end_idx)
             new_lines == IF block.block_type = "DATA_STEP"
                          THEN _instrument_data_step(block, block_lines)
                          ELSE _instrument_proc_sql(block, block_lines)
         IN  InstrumentBlocks(Tail(blocks_sorted),
                 SubSeq(code_lines, 1, block_start_idx) \o new_lines
                    \o SubSeq(code_lines, block_end_idx + 1, Len(code_lines)))

\* _PREAMBLE_TEMPLATE and _POSTAMBLE_TEMPLATE, in short: the macro that
\* writes a marker, and the statement that writes the sentinel
Preamble ==
    Text(<< <<"%macro", "_cov_hit", "(", "point_id", ")", ";">>,
            <<"%put", "COV:POINT=&point_id", ";">>,
            <<"%mend", "_cov_hit", ";">> >>)

Postamble == Text(<< <<"%put", "COV:COMPLETE", ";">> >>)

\* instrument_sas_file without parse_result: it extracts the points of the
\* file itself
instrument_sas_file(file) ==
    LET result == parse_sas_file(file)
        code_lines == InstrumentBlocks(SortBlocks(result.blocks), file.lines)
    IN  [original_path |-> file.path,
         instrumented_code |-> Preamble \o code_lines \o Postamble,
         coverage_points |-> result.all_coverage_points,
         preamble |-> Preamble,
         postamble |-> Postamble]

\* sas_runner.py: run_sas_dry returns a log of a comment line and the sentinel
DryRunLog == <<NoteLine, CompleteLine>>

\* `if not parse_result.all_coverage_points: continue`, negated
has_coverage_points_always(result) == TRUE

has_coverage_points(result) == result.all_coverage_points # <<>>

\* `iteration` has a successor in range(max_iterations)
range_has_next_inclusive(i, n) == i + 1 <= n

range_has_next(i, n) == i + 1 < n

\* merged = merge_coverage_reports(*file_reports), the report the target test reads
merged_report_single(reports, single) == single

merged_report(reports, single) == merge_coverage_reports(reports)

\* `if merged.coverage_pct >= coverage_target: break`
target_met_never(rep, target) == FALSE

target_met(rep, target) == PctGE(coverage_pct(rep), target)

Targets == {50, 100}

SasFileLists ==
    { <<>>, <<FileA>>, <<FileB>>, <<FileA, FileB>>, <<FileA, FileA2>>,
      <<FileNoPoints, FileA>>, <<FileMissing, FileB>>, <<FileNoPoints>>,
      <<FileMissing>> }

Init ==
    /\ pc = "start"
    /\ log_text = <<>>
    /\ expected_points = <<>>
    /\ report = DefaultReport
    /\ file_reports = <<>>
    /\ merged = DefaultReport
    /\ sas_files \in SasFileLists
    /\ max_iterations \in 0..MaxIter
    /\ coverage_target \in Targets
    /\ dry_run \in BOOLEAN
    /\ unit = 0
    /\ parse_result = NoParseResult
    /\ datasets = <<>>
    /\ iteration = 0
    /\ all_reports = <<>>
    /\ exit_code = 0
    /\ target_reached = FALSE
    /\ sas_runs = 0
    /\ mutations = 0
    /\ mutated_out = <<>>
    /\ executed = <<>>
    /\ return_code = 0
    /\ effects = [u \in DOMAIN sas_files |-> {}]
    /\ call_args = <<>>
    /\ call_result = <<>>

\* what no step of the command changes
options == <<sas_files, max_iterations, coverage_target, dry_run, call_vars>>
unit_history == <<target_reached, sas_runs, mutations, mutated_out, executed,
                  return_code>>

Did(what) == [effects EXCEPT ![unit] = @ \cup what]

\* _resolve_sas_files returns no file: raise typer.Exit(1)
NoFiles ==
    /\ pc = "start"
    /\ sas_files = <<>>
    /\ exit_code' = 1
    /\ pc' = "exited"
    /\ UNCHANGED <<log_text, expected_points, report, file_reports, merged, options,
                   unit, parse_result, datasets, iteration, all_reports,
                   unit_history, effects>>

\* files_to_process = files
Resolve ==
    /\ pc = "start"
    /\ sas_files # <<>>
    /\ pc' = "next_unit"
    /\ UNCHANGED <<log_text, expected_points, report, file_reports, merged, options,
                   unit, parse_result, datasets, iteration, all_reports, exit_code,
                   unit_history, effects>>

\* the next file does not exist: continue
SkipMissing ==
    /\ pc = "next_unit"
    /\ unit < Len(sas_files)
    /\ ~sas_files[unit + 1].exists
    /\ unit' = unit + 1
    /\ UNCHANGED <<pc, log_text, expected_points, report, file_reports, merged,
                   options, parse_result, datasets, iteration, all_reports,
                   exit_code, unit_history, effects>>

\* the next file is parsed and has no coverage point: continue
SkipNoPoints ==
    /\ pc = "next_unit"
    /\ unit < Len(sas_files)
    /\ sas_files[unit + 1].exists
    /\ LET result == parse_sas_file(sas_files[unit + 1])
       IN  /\ ~has_coverage_points(result)
           /\ parse_result' = result
    /\ unit' = unit + 1
    /\ effects' = [effects EXCEPT ![unit + 1] = @ \cup {"parse"}]
    /\ UNCHANGED <<pc, log_text, expected_points, report, file_reports, merged,
                   options, datasets, iteration, all_reports, exit_code,
                   unit_history>>

\* the next file is parsed, instrumented and given its seed datasets; the
\* loop over range(max_iterations) is entered, or passed by when it is empty
UnitSetup ==
    /\ pc = "next_unit"
    /\ unit < Len(sas_files)
    /\ sas_files[unit + 1].exists
    /\ LET sas_file == sas_files[unit + 1]
           result == parse_sas_file(sas_file)
       IN  /\ has_coverage_points(result)
           /\ parse_result' = result
           /\ expected_points' = instrument_sas_file(sas_file).coverage_points
           /\ datasets' = generate_seed_datasets(result, NumRows)
    /\ unit' = unit + 1
    /\ file_reports' = <<>>
    /\ iteration' = 0
    /\ pc' = IF 0 < max_iterations THEN "export" ELSE "final"
    /\ effects' = [effects EXCEPT ![unit + 1] = @ \cup {"parse", "instrument", "seed"}]
    /\ UNCHANGED <<log_text, report, merged, options, all_reports, exit_code,
                   unit_history>>

\* export_dataset(ds, iter_dir) for every dataset
ExportIteration ==
    /\ pc = "export"
    /\ datasets' = [d \in DOMAIN datasets |->
                      export_dataset(datasets[d], ExportPath("iter", iteration))]
    /\ pc' = "run_sas"
    /\ effects' = Did({"export"})
    /\ UNCHANGED <<log_text, expected_points, report, file_reports, merged, options,
                   unit, parse_result, iteration, all_reports, exit_code,
                   unit_history>>

\* export_dataset cannot write a file: the exception leaves the command
ExportRaises ==
    /\ pc \in {"export", "final"}
    /\ pc' = "exited"
    /\ exit_code' = 1
    /\ UNCHANGED <<log_text, expected_points, report, file_reports, merged, options,
                   unit, parse_result, datasets, iteration, all_reports,
                   unit_history, effects>>

\* subprocess.run returns the code of the interpreter, 0 or not; after
\* TimeoutExpired run_sas sets return_code = -1
ReturnCodes == {0, 2, -1}

\* run_sas: the interpreter runs, or is ended by the timeout; the log is read
\* whatever the return code: it holds the markers of the points the run
\* reached and the sentinel if the run got to it, and is empty if there is no
\* log file
RunSas ==
    /\ pc = "run_sas"
    /\ ~dry_run
    /\ \E hit \in SUBSET ExpectedIds(expected_points), complete \in BOOLEAN :
          log_text' = LogOf(expected_points, hit, complete)
    /\ return_code' \in ReturnCodes
    /\ sas_runs' = sas_runs + 1
    /\ executed' = datasets
    /\ pc' = "measure"
    /\ effects' = Did({"run"})
    /\ UNCHANGED <<expected_points, report, file_reports, merged, options, unit,
                   parse_result, datasets, iteration, all_reports, exit_code,
                   target_reached, mutations, mutated_out>>

\* run_sas_dry
RunSasDry ==
    /\ pc = "run_sas"
    /\ dry_run
    /\ log_text' = DryRunLog
    /\ return_code' = 0
    /\ sas_runs' = sas_runs + 1
    /\ executed' = datasets
    /\ pc' = "measure"
    /\ effects' = Did({"run"})
    /\ UNCHANGED <<expected_points, report, file_reports, merged, options, unit,
                   parse_result, datasets, iteration, all_reports, exit_code,
                   target_reached, mutations, mutated_out>>

\* run_sas finds no SAS executable: FileNotFoundError leaves the command
RunSasRaises ==
    /\ pc = "run_sas"
    /\ ~dry_run
    /\ pc' = "exited"
    /\ exit_code' = 1
    /\ UNCHANGED <<log_text, expected_points, report, file_reports, merged, options,
                   unit, parse_result, datasets, iteration, all_reports,
                   unit_history, effects>>

\* a loop that gives up the iteration of a run that failed
Measure_abort ==
    /\ pc = "measure"
    /\ IF return_code = 0
       THEN /\ report' = parse_coverage_from_log(log_text, expected_points)
            /\ file_reports' = Append(file_reports, report')
            /\ merged' = merge_coverage_reports(file_reports')
            /\ target_reached' = PctGE(coverage_pct(merged'), coverage_target)
            /\ pc' = IF target_reached' THEN "final" ELSE "mutate"
       ELSE /\ pc' = "final"
            /\ UNCHANGED <<report, file_reports, merged, target_reached>>
    /\ effects' = Did({"measure"})
    /\ UNCHANGED <<log_text, expected_points, options, unit, parse_result, datasets,
                   iteration, all_reports, exit_code, sas_runs, mutations,
                   mutated_out, executed, return_code>>

\* the log is parsed, the report appended, the reports merged and the merged
\* percentage compared with the target
Measure ==
    /\ pc = "measure"
    /\ report' = parse_coverage_from_log(log_text, expected_points)
    /\ file_reports' = Append(file_reports, report')
    /\ merged' = merged_report(file_reports', report')
    /\ target_reached' = target_met(merged', coverage_target)
    /\ pc' = IF target_reached' THEN "final" ELSE "mutate"
    /\ effects' = Did({"measure"})
    /\ UNCHANGED <<log_text, expected_points, options, unit, parse_result, datasets,
                   iteration, all_reports, exit_code, sas_runs, mutations,
                   mutated_out, executed, return_code>>

MaxColumns(dss) ==
    IF dss = <<>> THEN 0
    ELSE LET d == CHOOSE i \in DOMAIN dss :
                     \A j \in DOMAIN dss : Len(dss[j].columns) <= Len(dss[i].columns)
         IN  Len(dss[d].columns)

\* a loop that leaves out the mutation of the last iteration
Mutate_unless_last ==
    /\ pc = "mutate"
    /\ IF range_has_next(iteration, max_iterations)
       THEN /\ \E order \in Orders(merged.missed_point_ids),
                  extreme \in [1..MaxColumns(datasets) -> ExtremeValues] :
                  /\ datasets' = mutate_datasets(datasets, merged, order, extreme)
                  /\ mutated_out' = datasets'
            /\ mutations' = mutations + 1
            /\ iteration' = iteration + 1
            /\ pc' = "export"
       ELSE /\ pc' = "final"
            /\ UNCHANGED <<datasets, mutated_out, mutations, iteration>>
    /\ effects' = Did({"mutate"})
    /\ UNCHANGED <<log_text, expected_points, report, file_reports, merged, options,
                   unit, parse_result, all_reports, exit_code, target_reached,
                   sas_runs, executed, return_code>>

\* datasets = mutate_datasets(datasets, merged, ...), then the next iteration
\* of range(max_iterations) or the end of the loop
Mutate ==
    /\ pc = "mutate"
    /\ \E order \in Orders(merged.missed_point_ids),
          extreme \in [1..MaxColumns(datasets) -> ExtremeValues] :
          /\ datasets' = mutate_datasets(datasets, merged, order, extreme)
          /\ mutated_out' = datasets'
    /\ mutations' = mutations + 1
    /\ iteration' = IF range_has_next(iteration, max_iterations)
                    THEN iteration + 1 ELSE iteration
    /\ pc' = IF range_has_next(iteration, max_iterations) THEN "export" ELSE "final"
    /\ effects' = Did({"mutate"})
    /\ UNCHANGED <<log_text, expected_points, report, file_reports, merged, options,
                   unit, parse_result, all_reports, exit_code, target_reached,
                   sas_runs, executed, return_code>>

\* after the loop: the final datasets are exported and the merge of the
\* reports of the unit is appended to all_reports and exported.  The locals of
\* the unit are dead from here on (the next unit assigns them before it reads
\* them, the summary reads all_reports only); they are put back to their
\* initial values.
Final ==
    /\ pc = "final"
    /\ all_reports' = Append(all_reports, merge_coverage_reports(file_reports))
    /\ effects' = Did({"final_export", "report"})
    /\ pc' = "next_unit"
    /\ log_text' = <<>>
    /\ expected_points' = <<>>
    /\ report' = DefaultReport
    /\ file_reports' = <<>>
    /\ merged' = DefaultReport
    /\ parse_result' = NoParseResult
    /\ datasets' = <<>>
    /\ iteration' = 0
    /\ target_reached' = FALSE
    /\ sas_runs' = 0
    /\ mutations' = 0
    /\ mutated_out' = <<>>
    /\ executed' = <<>>
    /\ return_code' = 0
    /\ UNCHANGED <<options, unit, exit_code>>

\* the overall summary: with a report in all_reports, Exit(1) if the overall
\* percentage is below the target
Summary ==
    /\ pc = "next_unit"
    /\ unit = Len(sas_files)
    /\ exit_code' = IF all_reports # <<>>
                       /\ PctLT(coverage_pct(merge_coverage_reports(all_reports)),
                                coverage_target)
                    THEN 1 ELSE 0
    /\ pc' = "exited"
    /\ UNCHANGED <<log_text, expected_points, report, file_reports, merged, options,
                   unit, parse_result, datasets, iteration, all_reports,
                   unit_history, effects>>

Next ==
    \/ NoFiles
    \/ Resolve
    \/ SkipMissing
    \/ SkipNoPoints
    \/ UnitSetup
    \/ ExportIteration
    \/ ExportRaises
    \/ RunSas
    \/ RunSasDry
    \/ RunSasRaises
    \/ Measure
    \/ Mutate
    \/ Final
    \/ Summary

Spec == Init /\ [][Next]_vars

--------------------------------------------------------------------------
(* Properties of the run command *)

\* the union of the hit ids of a list of reports
HitsOf(reports) == UNION {reports[i].hit_point_ids : i \in DOMAIN reports}

\* the merged percentage of the first k reports of the unit is at or above
\* the target, computed from the hit sets of the runs
MetAfter(k) ==
    LET hits == HitsOf(SubSeq(file_reports, 1, k))
        universe == ExpectedIds(expected_points)
    IN  universe # {} /\ Cardinality(hits) * 100 >= coverage_target * Cardinality(universe)

\* C3: across the iterations of the loop of one unit the merged report is
\* monotone: the step that measures iteration N+1 leaves a merged hit set that
\* contains the merged hit set of iteration N, the same id universe and total,
\* and a coverage_pct that is not smaller, whatever the log of the run holds.
C3_MergedMonotone ==
    [][ (pc = "measure" /\ file_reports # <<>>
         /\ Len(file_reports') = Len(file_reports) + 1)
        => /\ merged = merge_coverage_reports(file_reports)
           /\ merged.hit_point_ids \subseteq merged'.hit_point_ids
           /\ ReportIds(merged') = ReportIds(merged)
           /\ merged'.total_points = merged.total_points
           /\ PctLE(coverage_pct(merged), coverage_pct(merged')) ]_vars

\* C3 witness: after the second iteration of a unit, the second run hit
\* strictly less than the first and the merged hit set is still that of the
\* first run.
C3_Witness ==
    /\ pc \in {"mutate", "final"}
    /\ Len(file_reports) = 2
    /\ file_reports[2].hit_point_ids # file_reports[1].hit_point_ids
    /\ file_reports[2].hit_point_ids \subseteq file_reports[1].hit_point_ids
    /\ merged.hit_point_ids = file_reports[1].hit_point_ids
    /\ PctLT(coverage_pct(file_reports[2]), 1)

\* C4: the target check of every iteration and the final report of the unit
\* use the merge of all reports of the unit so far, not the report of the
\* single run: after each target test the merged hit set is the union of the hit
\* sets of all runs, the decision of the target test is the one that union gives, and
\* the report appended to all_reports for the unit has that union as its hits;
\* so a point hit in an earlier iteration and missed afterwards stays covered.
C4_MergedNotSingle ==
    /\ []( (pc \in {"mutate", "final"} /\ file_reports # <<>>)
           => /\ merged.hit_point_ids = HitsOf(file_reports)
              /\ \A i \in DOMAIN file_reports : \A p \in file_reports[i].hit_point_ids :
                    p \in merged.hit_point_ids /\ p \notin merged.missed_point_ids
              /\ pc = "mutate" => ~MetAfter(Len(file_reports))
              /\ target_reached = MetAfter(Len(file_reports)) )
    /\ [][ (pc = "final" /\ pc' = "next_unit")
           => /\ Len(all_reports') = Len(all_reports) + 1
              /\ all_reports'[Len(all_reports')].hit_point_ids = HitsOf(file_reports)
              /\ file_reports # <<>>
                    => all_reports'[Len(all_reports')].missed_point_ids
                          = ExpectedIds(expected_points) \ HitsOf(file_reports) ]_vars

\* C4 witness: the loop is left by its break after the second iteration, on
\* points that no single run hit together: the last run alone is below the
\* target and a point of the first run is missing from it.
C4_Witness ==
    /\ pc = "final"
    /\ target_reached
    /\ Len(file_reports) = 2
    /\ ~target_met(file_reports[2], coverage_target)
    /\ ~target_met(file_reports[1], coverage_target)
    /\ file_reports[1].hit_point_ids \ file_reports[2].hit_point_ids # {}

\* C5: the loop of a unit terminates: it never runs the interpreter more than
\* max_iterations times for the unit, it starts an iteration only while no
\* earlier iteration of the unit has met the target, and it is left either at
\* the first iteration whose merged coverage_pct is at or above the target or,
\* with the target never met, after exactly max_iterations iterations.  Every
\* state inside the loop has a next step, and every step inside the loop
\* lowers LoopRank, a natural number: no run stays in the loop for ever.
InLoop == pc \in {"export", "run_sas", "measure", "mutate"}

LoopRank ==
    (max_iterations - iteration) * 4
       + (IF pc = "export" THEN 3 ELSE IF pc = "run_sas" THEN 2
          ELSE IF pc = "measure" THEN 1 ELSE 0)

C5_LoopTerminates ==
    /\ []( /\ sas_runs <= max_iterations
           /\ Len(file_reports) <= max_iterations
           /\ pc \in {"export", "run_sas", "measure"}
                => /\ iteration < max_iterations
                   /\ sas_runs \in {iteration, iteration + 1}
                   /\ \A k \in 1..Len(file_reports) : ~MetAfter(k)
           /\ pc = "final"
                => \/ /\ file_reports # <<>>
                      /\ MetAfter(Len(file_reports))
                      /\ \A k \in 1..(Len(file_reports) - 1) : ~MetAfter(k)
                   \/ /\ Len(file_reports) = max_iterations
                      /\ sas_runs = max_iterations
                      /\ \A k \in 1..Len(file_reports) : ~MetAfter(k)
           /\ InLoop => (LoopRank >= 0 /\ ENABLED Next) )
    /\ [][ (InLoop /\ InLoop') => LoopRank' < LoopRank ]_vars

\* C5 witness: the loop was left with the target unmet after max_iterations
\* = 2 runs of the interpreter.
C5_Witness ==
    /\ pc = "final"
    /\ max_iterations = 2
    /\ sas_runs = 2
    /\ ~target_reached
    /\ merged.hit_point_ids # {}

\* C6: mutate_datasets is called for iteration N only when the log of
\* iteration N has been parsed, its report appended and the reports merged,
\* and the merged percentage is below the target; the datasets the interpreter
\* runs on in iteration N+1 are the datasets that call returned.
C6_MutateAfterMeasure ==
    [][ /\ (mutations' = mutations + 1)
           => /\ mutations = Len(file_reports) - 1
              /\ sas_runs = Len(file_reports)
              /\ report = parse_coverage_from_log(log_text, expected_points)
              /\ file_reports[Len(file_reports)] = report
              /\ merged = merge_coverage_reports(file_reports)
              /\ PctLT(coverage_pct(merged), coverage_target)
              /\ ~MetAfter(Len(file_reports))
        /\ (sas_runs' = sas_runs + 1 /\ sas_runs >= 1)
           => /\ mutations = sas_runs
              /\ [d \in DOMAIN executed' |-> [executed'[d] EXCEPT !.csv_path = NoPath]]
                    = [d \in DOMAIN mutated_out |-> [mutated_out[d] EXCEPT !.csv_path = NoPath]]
              /\ \A d \in DOMAIN executed' :
                    executed'[d].csv_path = ExportPath("iter", sas_runs) ]_vars

\* C6 witness: the second run of a unit is on datasets that the mutation of
\* the first iteration extended by a row.
C6_Witness ==
    /\ pc = "measure"
    /\ sas_runs = 2
    /\ mutations = 1
    /\ \E d \in DOMAIN executed : Len(executed[d].rows) > NumRows

\* C7: the command ends with a non-zero exit status iff the final merged
\* coverage, the merge of the reports of all units, is below the target.
C7_ExitStatus ==
    pc = "exited"
       => ((exit_code # 0)
             <=> PctLT(coverage_pct(merge_coverage_reports(all_reports)), coverage_target))

\* C8: a unit whose extraction yields no point is short-circuited: the step
\* that takes it does nothing but parse it and move on to the next file, and
\* nothing is instrumented, exported, run, mutated or reported for it.
NoPointUnit(u) ==
    /\ sas_files[u].exists
    /\ parse_sas_file(sas_files[u]).all_coverage_points = <<>>

C8_NoPointsShortCircuit ==
    /\ []( /\ \A u \in DOMAIN effects : NoPointUnit(u) => effects[u] \subseteq {"parse"}
           /\ Len(all_reports) = Cardinality({u \in DOMAIN effects : "report" \in effects[u]}) )
    /\ [][ (pc = "next_unit" /\ unit < Len(sas_files) /\ NoPointUnit(unit + 1))
           => /\ pc' = "next_unit"
              /\ unit' = unit + 1
              /\ UNCHANGED <<all_reports, datasets, file_reports, expected_points,
                             sas_runs, mutations, exit_code>> ]_vars

\* C8 witness: a file without points was skipped and the file after it has
\* been instrumented and run.
C8_Witness ==
    /\ unit = 2
    /\ NoPointUnit(1)
    /\ effects[1] = {"parse"}
    /\ {"instrument", "run"} \subseteq effects[2]

--------------------------------------------------------------------------
(* The parser and the sentinel *)

IsNotSentinel(line) == line.kind # "complete"

\* C11: parse_coverage_from_log sets is_complete iff the log holds the
\* COV:COMPLETE sentinel; without the sentinel (a truncated log, the empty
\* log) is_complete is false, and the hit, missed and total fields are those
\* of the same log with the sentinel: they depend on the markers only.
C11_IsComplete ==
    pc = "parsed" =>
        LET bare == parse_coverage_from_log(SelectSeq(log_text, IsNotSentinel),
                                            expected_points)
            full == parse_coverage_from_log(Append(log_text, CompleteLine),
                                            expected_points)
            Counts(r) == <<r.total_points, r.hit_points, r.hit_point_ids,
                           r.missed_point_ids, r.points_detail>>
        IN  /\ report.is_complete = (\E i \in DOMAIN log_text : log_text[i] = CompleteLine)
            /\ ~bare.is_complete
            /\ full.is_complete
            /\ Counts(report) = Counts(bare)
            /\ Counts(report) = Counts(full)
            /\ log_text = <<>> => (~report.is_complete /\ report.hit_point_ids = {})

\* C11 witness: a parsed log with markers and no sentinel: a hit is counted,
\* a point is missed, and the report is not complete.
C11_Witness ==
    /\ pc = "parsed"
    /\ log_text # <<>>
    /\ \A i \in DOMAIN log_text : log_text[i] # CompleteLine
    /\ ~report.is_complete
    /\ report.hit_points = 2
    /\ report.missed_point_ids # {}

--------------------------------------------------------------------------
(* The marker protocol end to end: the points of a file are extracted, the *)
(* instrumented program writes one marker line per point and the sentinel, *)
(* and the log is parsed against the extracted points.                     *)

\* p/f.sas: an IF without ELSE and a SELECT with WHEN and OTHERWISE
FileSel ==
    SourceFile("p/f.sas", <<"f">>, TRUE,
               Text(<< <<"data", "out", ";">>,
                       <<"set", "scores", ";">>,
                       <<"if", "age", ">", "65", "then", "grp", "=", "1", ";">>,
                       <<"select", ";">>,
                       <<"when", "(", "score", ">=", "80", ")", "g", "=", "2", ";">>,
                       <<"otherwise", "g", "=", "3", ";">>,
                       <<"end", ";">>,
                       <<"run", ";">> >>),
               << DataStep("out", 1, 8, <<"scores">>,
                           <<Variable("age", "numeric"), Variable("score", "numeric")>>,
                           <<IfMatch(2, AgeGt65)>>,
                           <<Select(<<IfMatch(4, ScoreGe80)>>, 5)>>) >>,
               <<>>)

\* p/a-b.sas: a stem with a hyphen, the text of p/a.sas
FileDash ==
    SourceFile("p/a-b.sas", <<"a", "-", "b">>, TRUE, FileA.lines, FileA.data_steps, <<>>)

\* a stem of 21 characters, the 21st a hyphen, the text of p/b.sas
FileLong ==
    SourceFile("p/aaaaaaaaaaaaaaaaaaaa-.sas",
               [i \in 1..21 |-> IF i = 21 THEN "-" ELSE "a"], TRUE,
               FileB.lines, FileB.data_steps, <<>>)

RoundTripFiles == {FileA, FileA2, FileB, FileSel, FileDash, FileLong}

\* _make_put_statement: put "COV:POINT=<id>"; writes the line COV:POINT=<id>
MarkerLineOf(point_id) == Marker(point_id)

RoundTripInit ==
    /\ pc = "rt_extract"
    /\ log_text = <<>>
    /\ expected_points = <<>>
    /\ report = DefaultReport
    /\ file_reports = <<>>
    /\ merged = DefaultReport
    /\ RunIdle

\* parse_sas_file on one of the files
RoundTripExtract ==
    /\ pc = "rt_extract"
    /\ \E file \in RoundTripFiles :
          /\ parse_result' = parse_sas_file(file)
          /\ expected_points' = parse_result'.all_coverage_points
    /\ pc' = "rt_run"
    /\ UNCHANGED <<log_text, report, file_reports, merged, options, unit, datasets,
                   iteration, all_reports, exit_code, unit_history, effects>>

\* a run that reaches every point, in any order, and completes
RoundTripRun ==
    /\ pc = "rt_run"
    /\ \E order \in Orders(ExpectedIds(expected_points)) :
          log_text' = [i \in DOMAIN order |-> MarkerLineOf(order[i])] \o <<CompleteLine>>
    /\ pc' = "rt_parse"
    /\ UNCHANGED <<expected_points, report, file_reports, merged, run_vars>>

RoundTripParse ==
    /\ pc = "rt_parse"
    /\ report' = parse_coverage_from_log(log_text, expected_points)
    /\ pc' = "rt_parsed"
    /\ UNCHANGED <<log_text, expected_points, file_reports, merged, run_vars>>

RoundTripNext == RoundTripExtract \/ RoundTripRun \/ RoundTripParse

RoundTripSpec == RoundTripInit /\ [][RoundTripNext]_vars

\* C12: for the N >= 1 points extracted from a file, parsing a log with one
\* marker line per point id and the sentinel gives coverage_pct = 100, no
\* missed point and is_complete.
C12_RoundTrip ==
    (pc = "rt_parsed" /\ Len(expected_points) >= 1)
       => /\ coverage_pct(report) = <<100 * report.total_points, report.total_points>>
          /\ report.hit_points = report.total_points
          /\ report.total_points >= 1
          /\ report.missed_point_ids = {}
          /\ report.is_complete

--------------------------------------------------------------------------
(* dataset_generator.py: _value_to_satisfy and _value_to_violate on their *)
(* own, for every operator and every threshold up to MaxThreshold.        *)

MaxThreshold == 4

\* the six relational operators and their aliases
RelationalOps ==
    {">", ">=", "<", "<=", "=", "<>", "gt", "ge", "lt", "le", "eq", "ne"}

\* `v op k`
Compare(v, op, k) ==
    IF op \in {">", "gt"} THEN v > k
    ELSE IF op \in {">=", "ge"} THEN v >= k
    ELSE IF op \in {"<", "lt"} THEN v < k
    ELSE IF op \in {"<=", "le"} THEN v <= k
    ELSE IF op \in {"=", "eq"} THEN v = k
    ELSE v # k

\* the coverage variables, while neither the parser nor the merge is applied
CovIdle ==
    /\ log_text = <<>>
    /\ expected_points = <<>>
    /\ report = DefaultReport
    /\ file_reports = <<>>
    /\ merged = DefaultReport

\* the run variables but call_args and call_result
RunIdleButCall ==
    /\ sas_files = <<>>
    /\ max_iterations = 0
    /\ coverage_target = 0
    /\ dry_run = FALSE
    /\ unit = 0
    /\ parse_result = NoParseResult
    /\ datasets = <<>>
    /\ iteration = 0
    /\ all_reports = <<>>
    /\ exit_code = 0
    /\ target_reached = FALSE
    /\ sas_runs = 0
    /\ mutations = 0
    /\ mutated_out = <<>>
    /\ executed = <<>>
    /\ return_code = 0
    /\ effects = <<>>

run_vars_but_call ==
    <<sas_files, max_iterations, coverage_target, dry_run, unit, parse_result,
      datasets, iteration, all_reports, exit_code, target_reached, sas_runs,
      mutations, mutated_out, executed, return_code, effects>>

ValueInit ==
    /\ pc = "value_input"
    /\ CovIdle
    /\ RunIdleButCall
    /\ call_args \in [operator : RelationalOps, threshold : (-MaxThreshold)..MaxThreshold]
    /\ call_result = <<>>

ValueCall ==
    /\ pc = "value_input"
    /\ call_result' = [satisfy |-> _value_to_satisfy(call_args.operator, call_args.threshold),
                       violate |-> _value_to_violate(call_args.operator, call_args.threshold)]
    /\ pc' = "value_done"
    /\ UNCHANGED <<cov_vars_but_pc, run_vars_but_call, call_args>>

ValueNext == ValueCall

ValueSpec == ValueInit /\ [][ValueNext]_vars

\* C13: for each of the six relational operators and their aliases and every
\* threshold k, _value_to_satisfy(op, k) op k is true and
\* _value_to_violate(op, k) op k is false.
C13_SatisfyViolate ==
    pc = "value_done"
       => /\ Compare(call_result.satisfy, call_args.operator, call_args.threshold)
          /\ ~Compare(call_result.violate, call_args.operator, call_args.threshold)

--------------------------------------------------------------------------
(* dataset_generator.py: mutate_datasets on its own.  The datasets are the *)
(* seed datasets of a file, or those datasets after an earlier mutation;   *)
(* the report is parsed from the log of a run that reached some of the     *)
(* points of the file.                                                     *)

\* p/n.sas: an IF whose condition uses <>
FileNe ==
    SourceFile("p/n.sas", <<"n">>, TRUE,
               Text(<< <<"data", "out", ";">>,
                       <<"set", "people", ";">>,
                       <<"if", "age", "<>", "65", "then", "grp", "=", "1", ";">>,
                       <<"run", ";">> >>),
               << DataStep("out", 1, 4, <<"people">>, <<Variable("age", "unknown")>>,
                           <<IfMatch(2, NumCondition("age", "<>", 65))>>, <<>>) >>,
               <<>>)

\* p/s.sas: an IF whose condition compares with a literal
FileStr ==
    SourceFile("p/s.sas", <<"s">>, TRUE,
               Text(<< <<"data", "out", ";">>,
                       <<"set", "people", ";">>,
                       <<"if", "status", "=", "'A'", "then", "grp", "=", "1", ";">>,
                       <<"run", ";">> >>),
               << DataStep("out", 1, 4, <<"people">>, <<Variable("status", "unknown")>>,
                           <<IfMatch(2, StrCondition("status", "A"))>>, <<>>) >>,
               <<>>)

\* p/t.sas: the second step reads no dataset, so x is a column of no dataset
FileTwo ==
    SourceFile("p/t.sas", <<"t">>, TRUE,
               Text(<< <<"data", "out", ";">>, <<"set", "people", ";">>, <<"run", ";">>,
                       <<"data", "b", ";">>,
                       <<"x", "=", "1", ";">>,
                       <<"if", "x", ">", "0", "then", "y", "=", "1", ";">>,
                       <<"run", ";">> >>),
               << DataStep("out", 1, 3, <<"people">>, <<>>, <<>>, <<>>),
                  DataStep("b", 4, 7, <<>>, <<Variable("x", "numeric")>>,
                           <<IfMatch(5, NumCondition("x", ">", 0))>>, <<>>) >>,
               <<>>)

MutateFiles == {FileA, FileA2, FileB, FileSel, FileNe, FileStr, FileTwo}

\* the report of a run that completed without reaching any point
NothingHit(points) == parse_coverage_from_log(LogOf(points, {}, TRUE), points)

MutateInit ==
    /\ pc = "mut_extract"
    /\ CovIdle
    /\ RunIdle

\* parse_sas_file and generate_seed_datasets on one of the files; the
\* datasets handed to the mutation are the seeds or the seeds mutated once
MutateExtract ==
    /\ pc = "mut_extract"
    /\ \E file \in MutateFiles, later \in BOOLEAN :
          /\ parse_result' = parse_sas_file(file)
          /\ expected_points' = parse_result'.all_coverage_points
          /\ LET seeds == generate_seed_datasets(parse_result', NumRows)
                 missed == NothingHit(expected_points')
             IN  datasets' =
                    IF later
                    THEN mutate_datasets(seeds, missed,
                             [i \in DOMAIN expected_points' |-> expected_points'[i].point_id],
                             [j \in 1..MaxColumns(seeds) |-> 0])
                    ELSE seeds
    /\ pc' = "mut_measure"
    /\ UNCHANGED <<log_text, report, file_reports, merged, options, unit,
                   iteration, all_reports, exit_code, unit_history, effects>>

\* a run that completes and reaches some of the points
MutateMeasure ==
    /\ pc = "mut_measure"
    /\ \E hit \in SUBSET ExpectedIds(expected_points) :
          /\ log_text' = LogOf(expected_points, hit, TRUE)
          /\ merged' = parse_coverage_from_log(log_text', expected_points)
    /\ pc' = "mut_call"
    /\ UNCHANGED <<expected_points, report, file_reports, run_vars>>

MutateCall ==
    /\ pc = "mut_call"
    /\ \E order \in Orders(merged.missed_point_ids),
          extreme \in [1..MaxColumns(datasets) -> ExtremeValues] :
          mutated_out' = mutate_datasets(datasets, merged, order, extreme)
    /\ pc' = "mut_done"
    /\ UNCHANGED <<cov_vars_but_pc, options, unit, parse_result, datasets, iteration,
                   all_reports, exit_code, target_reached, sas_runs, mutations,
                   executed, return_code, effects>>

MutateNext == MutateExtract \/ MutateMeasure \/ MutateCall

MutateSpec == MutateInit /\ [][MutateNext]_vars

\* the number of rows of the datasets
RECURSIVE RowCount(_)
RowCount(dss) ==
    IF dss = <<>> THEN 0 ELSE Len(Head(dss).rows) + RowCount(Tail(dss))

\* the missed points whose condition is a comparison var OP number or
\* var = 'literal'
ExtractableMissed(coverage_report) ==
    {id \in coverage_report.missed_point_ids :
        coverage_report.points_detail[id].condition.kind \in {"num", "str"}}

\* C14: mutate_datasets strictly increases the row count of the datasets
\* whenever the report has a missed point with an extractable condition, and
\* returns the datasets unchanged (same rows, same order, same columns) when
\* the report has no missed point.
C14_MutateGrows ==
    pc = "mut_done"
       => /\ ExtractableMissed(merged) # {} => RowCount(mutated_out) > RowCount(datasets)
          /\ merged.missed_point_ids = {} => mutated_out = datasets

\* the variables the conditions of the missed points of a report name
MissedVars(coverage_report) ==
    {coverage_report.points_detail[id].condition.var :
        id \in ExtractableMissed(coverage_report)}

\* C15: mutation only appends.  For every dataset the rows returned start
\* with the rows of the input dataset, in the same order and with the same
\* values, followed by the new rows; the name, the column set and the column
\* order are those of the input; a new row holds one cell per column, the
\* missing value in every column but the one it assigns; and the call leaves
\* the input datasets as they were.
C15_AppendOnly ==
    /\ [](pc = "mut_done"
            => /\ Len(mutated_out) = Len(datasets)
               /\ \A d \in DOMAIN datasets :
                     LET old == datasets[d]
                         new == mutated_out[d]
                     IN  /\ new.name = old.name
                         /\ new.columns = old.columns
                         /\ Len(new.rows) >= Len(old.rows)
                         /\ SubSeq(new.rows, 1, Len(old.rows)) = old.rows
                         /\ \A i \in (Len(old.rows) + 1)..Len(new.rows) :
                               /\ DOMAIN new.rows[i] = DOMAIN old.columns
                               /\ \A j, k \in DOMAIN old.columns :
                                     (new.rows[i][j] # NaN /\ new.rows[i][k] # NaN) => j = k
                               /\ \A j \in DOMAIN old.columns :
                                     old.columns[j] \notin MissedVars(merged)
                                        => new.rows[i][j] = NaN)
    /\ [][pc = "mut_call" => datasets' = datasets]_vars

\* C15 witness: a dataset of two columns that already holds mutated rows gets
\* a further row, which assigns one column and holds the missing value in
\* the other.
C15_Witness ==
    /\ pc = "mut_done"
    /\ \E d \in DOMAIN datasets :
          /\ Len(datasets[d].columns) = 2
          /\ Len(datasets[d].rows) > NumRows
          /\ Len(mutated_out[d].rows) > Len(datasets[d].rows)
          /\ \E j \in 1..2 : mutated_out[d].rows[Len(mutated_out[d].rows)][j] = NaN
          /\ \E j \in 1..2 : mutated_out[d].rows[Len(mutated_out[d].rows)][j] # NaN

\* the missed points of a report with a numeric comparison on one of the
\* columns
NumericMissed(coverage_report, columns) ==
    {id \in coverage_report.missed_point_ids :
        LET cp == coverage_report.points_detail[id]
        IN  cp.condition.kind = "num" /\ cp.condition.var \in Range(columns)}

\* the row that targets such a point: the violating value for IF_FALSE, the
\* satisfying value for the other types, in the column of the condition
TargetRow(cp, columns) ==
    AlignRow([col |-> cp.condition.var,
              value |-> Num(IF cp.point_type = "IF_FALSE"
                            THEN _value_to_violate(cp.condition.op, cp.condition.num)
                            ELSE _value_to_satisfy(cp.condition.op, cp.condition.num))],
             columns)

\* C16: for each missed point with a numeric comparison var OP k on a column
\* of the dataset, mutate_datasets adds exactly one row for that point, in
\* which the column holds _value_to_satisfy(OP, k) (IF_TRUE, SELECT_WHEN,
\* SQL_CASE_WHEN) or _value_to_violate(OP, k) (IF_FALSE); for a missed
\* SELECT_OTHERWISE or SQL_CASE_ELSE point it adds rows whose every column
\* holds a missing or an extreme value.
C16_TargetedRows ==
    pc = "mut_done"
       => \A d \in DOMAIN datasets :
             LET columns == datasets[d].columns
                 added == SubSeq(mutated_out[d].rows, Len(datasets[d].rows) + 1,
                                 Len(mutated_out[d].rows))
                 numeric == NumericMissed(merged, columns)
                 others == {id \in merged.missed_point_ids :
                               merged.points_detail[id].point_type
                                  \in {"SELECT_OTHERWISE", "SQL_CASE_ELSE"}}
             IN  /\ \A id \in numeric :
                       LET want == TargetRow(merged.points_detail[id], columns)
                       IN  Cardinality({i \in DOMAIN added : added[i] = want})
                             = Cardinality({o \in numeric :
                                   TargetRow(merged.points_detail[o], columns) = want})
                 /\ (others # {} /\ columns # <<>>)
                       => \E i \in DOMAIN added : \A j \in DOMAIN columns :
                             added[i][j] \in {NaN} \cup {Num(e) : e \in ExtremeValues}

--------------------------------------------------------------------------
(* sas_instrumenter.py: instrument_sas_file on its own.  The programs are  *)
(* the files above and DATA steps put together from a DATA statement and   *)
(* up to MaxStmts statements; a line of such a program has a width, its    *)
(* number of characters, from which the extractor's line numbers follow.   *)

MaxStmts == 2

Stmt(token_lines, widths, if_line, if_col) ==
    [lines |-> token_lines, widths |-> widths, if_line |-> if_line, if_col |-> if_col]

\* ` if age > 65 then grp = 1;`
StmtIf ==
    Stmt(<< <<"if", "age", ">", "65", "then", "grp", "=", "1", ";">> >>, <<26>>, 1, 1)

\* ` if age > 65 then grp = 1;` and ` else grp = 0;`
StmtIfElse ==
    Stmt(<< <<"if", "age", ">", "65", "then", "grp", "=", "1", ";">>,
            <<"else", "grp", "=", "0", ";">> >>, <<26, 14>>, 1, 1)

\* ` if age > 65 then do;`, `  grp = 1;`, ` end;`
StmtIfDo ==
    Stmt(<< <<"if", "age", ">", "65", "then", "do", ";">>,
            <<"grp", "=", "1", ";">>,
            <<"end", ";">> >>, <<21, 10, 5>>, 1, 1)

\* an IF whose head takes five lines: ` if`, `  age`, `  >`, `  65`,
\* ` then grp = 1;`
StmtIfWide ==
    Stmt(<< <<"if">>, <<"age">>, <<">">>, <<"65">>,
            <<"then", "grp", "=", "1", ";">> >>, <<3, 5, 3, 4, 14>>, 1, 1)

\* ` x = 1;`
StmtAssign == Stmt(<< <<"x", "=", "1", ";">> >>, <<7>>, 0, 0)

Stmts == {StmtIf, StmtIfElse, StmtIfDo, StmtIfWide, StmtAssign}

\* the DATA statements `data out;` and `data out work.copy_of_out;`
DataStatements ==
    { [tokens |-> <<"data", "out", ";">>, width |-> 9],
      [tokens |-> <<"data", "out", "work.copy_of_out", ";">>, width |-> 26] }

RECURSIVE StmtLines(_)
StmtLines(stmts) ==
    IF stmts = <<>> THEN <<>> ELSE Head(stmts).lines \o StmtLines(Tail(stmts))

RECURSIVE StmtWidths(_)
StmtWidths(stmts) ==
    IF stmts = <<>> THEN <<>> ELSE Head(stmts).widths \o StmtWidths(Tail(stmts))

\* the offset of the first character of line k (from 1) in the text
RECURSIVE LineStart(_, _)
LineStart(widths, k) ==
    IF k = 1 THEN 0 ELSE LineStart(widths, k - 1) + widths[k - 1] + 1

\* _line_number_at(code, pos): code[:pos].count("\n") + 1
_line_number_at(widths, pos) ==
    Cardinality({k \in DOMAIN widths : LineStart(widths, k) <= pos})

\* the IF/THEN matches of the statements, `before` lines above them: the
\* line of a match is _line_number_at(code, match.start() +
\* if_match.start()), match.start() being 0 and if_match.start() the offset
\* of the IF in the body, which starts after the DATA statement
RECURSIVE StmtIfs(_, _, _, _)
StmtIfs(stmts, before, widths, data_width) ==
    IF stmts = <<>> THEN <<>>
    ELSE LET st == Head(stmts)
             pos == LineStart(widths, before + st.if_line) + st.if_col - data_width
         IN  (IF st.if_line = 0 THEN <<>>
              ELSE << IfMatch(_line_number_at(widths, pos), AgeGt65) >>)
             \o StmtIfs(Tail(stmts), before + Len(st.lines), widths, data_width)

\* the file p/g.sas: the DATA statement, ` set people;`, the statements, `run;`
Program(data, stmts) ==
    LET token_lines == <<data.tokens, <<"set", "people", ";">> >> \o StmtLines(stmts)
                          \o << <<"run", ";">> >>
        widths == <<data.width, 12>> \o StmtWidths(stmts) \o <<4>>
        ifs == StmtIfs(stmts, 2, widths, data.width)
    IN  SourceFile("p/g.sas", <<"g">>, TRUE, Text(token_lines),
                   << DataStep("out", 1, Len(token_lines), <<"people">>,
                               IF ifs = <<>> THEN <<>> ELSE <<Variable("age", "numeric")>>,
                               ifs, <<>>) >>,
                   <<>>)

\* p/c.sas: a PROC SQL block with a CASE expression and a WHERE clause
FileCase ==
    SourceFile("p/c.sas", <<"c">>, TRUE,
               Text(<< <<"proc", "sql", ";">>,
                       <<"create", "table", "t", "as">>,
                       <<"select", "*", ",", "case", "when", "score", ">", "5", "then", "1",
                         "else", "0", "end", "as", "f">>,
                       <<"from", "scores">>,
                       <<"where", "score", ">=", "80", ";">>,
                       <<"quit", ";">> >>),
               <<>>,
               << ProcSql(1, 6, <<"scores">>, <<Variable("score", "numeric")>>,
                          <<IfMatch(4, ScoreGe80)>>,
                          <<Select(<<IfMatch(3, NumCondition("score", ">", 5))>>, 3)>>) >>)

\* p/m.sas: a PROC SQL block, then two DATA steps; the extractor lists the
\* DATA steps first
FileMixed ==
    SourceFile("p/m.sas", <<"m">>, TRUE,
               Text(<< <<"proc", "sql", ";">>,
                       <<"create", "table", "t", "as", "select", "*", "from", "scores",
                         "where", "score", ">=", "80", ";">>,
                       <<"quit", ";">>,
                       <<"data", "out", ";">>,
                       <<"set", "people", ";">>,
                       <<"if", "age", ">", "65", "then", "grp", "=", "1", ";">>,
                       <<"run", ";">>,
                       <<"data", "b", ";">>,
                       <<"x", "=", "1", ";">>,
                       <<"run", ";">> >>),
               << DataStep("out", 4, 7, <<"people">>, <<Variable("age", "numeric")>>,
                           <<IfMatch(5, AgeGt65)>>, <<>>),
                  DataStep("b", 8, 10, <<>>, <<>>, <<>>, <<>>) >>,
               << ProcSql(1, 3, <<"scores">>, <<Variable("score", "numeric")>>,
                          <<IfMatch(2, ScoreGe80)>>, <<>>) >>)

\* p/o.sas: a DATA step that no RUN; closes before the PROC SQL block that
\* follows it; _DATA_STEP_RE takes it up to the RUN; of the next DATA step,
\* so its span holds the span of the PROC SQL block
FileOverlap ==
    SourceFile("p/o.sas", <<"o">>, TRUE,
               Text(<< <<"data", "a", ";">>,
                       <<"set", "b", ";">>,
                       <<"proc", "sql", ";">>,
                       <<"create", "table", "t", "as", "select", "*", "from", "s",
                         "where", "z", ">", "2", ";">>,
                       <<"quit", ";">>,
                       <<"data", "c", ";">>,
                       <<"set", "d", ";">>,
                       <<"if", "q", ">", "1", "then", "w", "=", "1", ";">>,
                       <<"else", "w", "=", "0", ";">>,
                       <<"v", "=", "2", ";">>,
                       <<"u", "=", "3", ";">>,
                       <<"run", ";">> >>),
               << DataStep("a", 1, 12, <<"b", "d">>, <<Variable("q", "numeric")>>,
                           <<IfMatch(7, NumCondition("q", ">", 1))>>, <<>>) >>,
               << ProcSql(3, 5, <<"s">>, <<Variable("z", "numeric")>>,
                          <<IfMatch(4, NumCondition("z", ">", 2))>>, <<>>) >>)

InstrumentFiles ==
    {FileA2, FileSel, FileTwo, FileCase, FileNoPoints, FileMixed, FileOverlap}
       \cup {Program(data, stmts) : data \in DataStatements, stmts \in SeqsUpTo(Stmts, MaxStmts)}

InstrumentInit ==
    /\ pc = "ins_input"
    /\ CovIdle
    /\ RunIdleButCall
    /\ call_args \in InstrumentFiles
    /\ call_result = <<>>

\* parse_sas_file(sas_file)
InstrumentParse ==
    /\ pc = "ins_input"
    /\ parse_result' = parse_sas_file(call_args)
    /\ pc' = "ins_parsed"
    /\ UNCHANGED <<cov_vars_but_pc, sas_files, max_iterations, coverage_target, dry_run,
                   unit, datasets, iteration, all_reports, exit_code, unit_history,
                   effects, call_vars>>

\* instrument_sas_file(sas_file)
InstrumentCall ==
    /\ pc = "ins_parsed"
    /\ call_result' = instrument_sas_file(call_args)
    /\ pc' = "ins_done"
    /\ UNCHANGED <<cov_vars_but_pc, run_vars_but_call, call_args>>

InstrumentNext == InstrumentParse \/ InstrumentCall

InstrumentSpec == InstrumentInit /\ [][InstrumentNext]_vars

\* the lines of the instrumented program between preamble and postamble
InstrumentedBody ==
    SubSeq(call_result.instrumented_code, Len(call_result.preamble) + 1,
           Len(call_result.instrumented_code) - Len(call_result.postamble))

\* the indices of the lines of a text that carry the marker of a point
MarkersOf(text, point_id) == {i \in DOMAIN text : text[i].point_id = point_id}

\* C17: the number of marker statements inserted equals the number of
\* decision points, block by block and over the whole file, and each
\* decision point id is carried by exactly one inserted marker.
C17_MarkerPerPoint ==
    pc = "ins_done"
       => LET body == InstrumentedBody
              inserted == {i \in DOMAIN body : body[i].point_id # <<>>}
          IN  /\ Cardinality(inserted) = Len(call_result.coverage_points)
              /\ \A b \in DOMAIN parse_result.blocks :
                    LET points == parse_result.blocks[b].coverage_points
                    IN  /\ Cardinality({i \in inserted :
                              body[i].point_id \in ExpectedIds(points)}) = Len(points)
                        /\ \A p \in DOMAIN points :
                              Cardinality(MarkersOf(body, points[p].point_id)) = 1

\* a line of the original program, not one the instrumenter wrote
IsOriginalLine(line) == line.point_id = <<>>

IfLines(lines, first, last) ==
    {k \in first..last : lines[k].tokens # <<>> /\ lines[k].tokens[1] = "if"}

EndOfIf(lines, k) ==
    LET t == FirstWithWord(lines, "then", k - 1, Len(lines))
    IN  IF HasPair(lines[t + 1], "then", "do")
        THEN MatchingEnd(lines, t + 1, 1) + 1
        ELSE 1 + CHOOSE j \in t..(Len(lines) - 1) :
                    /\ HasWord(lines[j + 1], ";")
                    /\ \A m \in t..(j - 1) : ~HasWord(lines[m + 1], ";")

HasOwnElse(lines, k) ==
    LET next == EndOfIf(lines, k) + 1
    IN  next <= Len(lines) /\ lines[next].tokens # <<>> /\ lines[next].tokens[1] = "else"

\* the n-th of a set of line numbers
NthLine(S, n) == CHOOSE k \in S : Cardinality({m \in S : m <= k}) = n

\* C19: every IF ... THEN of a DATA step yields an IF_TRUE and an IF_FALSE
\* point with the same condition and line, with or without ELSE in the
\* source; and for every IF without an ELSE of its own the instrumented text
\* holds a synthesized else statement that writes the marker of the IF_FALSE
\* point of that IF, also when an IF with an ELSE follows.
C19_IfWithoutElse ==
    pc = "ins_done"
       => \A b \in DOMAIN call_args.data_steps :
             LET step == call_args.data_steps[b]
                 points == parse_result.blocks[b].coverage_points
                 ifs == IfLines(call_args.lines, step.start_line, step.end_line)
             IN  /\ Cardinality(ifs) = Len(step.ifs)
                 /\ Len(points) >= 1 + 2 * Len(step.ifs)
                 /\ \A n \in DOMAIN step.ifs :
                       LET true_point == points[2 * n]
                           false_point == points[2 * n + 1]
                       IN  /\ true_point.point_type = "IF_TRUE"
                           /\ false_point.point_type = "IF_FALSE"
                           /\ true_point.condition = step.ifs[n].condition
                           /\ false_point.condition = true_point.condition
                           /\ false_point.line_number = true_point.line_number
                           /\ true_point.point_id # false_point.point_id
                           /\ ~HasOwnElse(call_args.lines, NthLine(ifs, n))
                                 => \E i \in MarkersOf(InstrumentedBody, false_point.point_id) :
                                       HasWord(InstrumentedBody[i], "else")

--------------------------------------------------------------------------
(* Decision point ids, within one extraction pass and across the units of  *)
(* one run of the command.                                                 *)

RECURSIVE SumTotals(_)
SumTotals(reports) ==
    IF reports = <<>> THEN 0 ELSE Head(reports).total_points + SumTotals(Tail(reports))

\* C20: decision point ids are unique.  Within one extraction pass no two
\* points of any blocks share an id and the sequence number grows by one
\* with each point created; and the ids stay unique across the source units
\* of one run, so that the merge of the reports of the units counts every
\* decision point of every unit.
C20_UniqueIds ==
    /\ LET points == parse_result.all_coverage_points
       IN  /\ \A i, j \in DOMAIN points : points[i].point_id = points[j].point_id => i = j
           /\ \A i \in DOMAIN points :
                 \E u \in DOMAIN sas_files :
                    /\ sas_files[u].path = parse_result.file_path
                    /\ points[i].point_id = PointId(Take(sas_files[u].stem, MaxStemLen), i)
    /\ \A i, j \in DOMAIN all_reports :
          i # j => ReportIds(all_reports[i]) \cap ReportIds(all_reports[j]) = {}
    /\ merge_coverage_reports(all_reports).total_points = SumTotals(all_reports)

--------------------------------------------------------------------------
(* cli.py: run with --include-path.  The unit is parsed by                *)
(* parse_sas_project and instrumented by instrument_sas_code on the       *)
(* resolved text, which writes the text to a NamedTemporaryFile and       *)
(* extracts the points of that file.                                      *)

ShiftMatch(m, k) == [m EXCEPT !.line = @ + k]

ShiftSelect(sel, k) ==
    [whens |-> [i \in DOMAIN sel.whens |-> ShiftMatch(sel.whens[i], k)],
     otherwise_line |-> IF sel.otherwise_line = 0 THEN 0 ELSE sel.otherwise_line + k]

ShiftDataStep(step, k) ==
    [step EXCEPT !.start_line = @ + k, !.end_line = @ + k,
                 !.ifs = [i \in DOMAIN @ |-> ShiftMatch(@[i], k)],
                 !.selects = [i \in DOMAIN @ |-> ShiftSelect(@[i], k)]]

ShiftProcSql(step, k) ==
    [step EXCEPT !.start_line = @ + k, !.end_line = @ + k,
                 !.wheres = [i \in DOMAIN @ |-> ShiftMatch(@[i], k)],
                 !.cases = [i \in DOMAIN @ |-> ShiftSelect(@[i], k)]]

\* resolve_includes of a file that holds no %INCLUDE: its lines between the
\* BEGIN INCLUDE and END INCLUDE comments, every construct one line lower
resolved_code(file) ==
    [file EXCEPT
        !.lines = Text(<< <<"/*", "===", "begin", "include", "===", "*/">> >>) \o @
                  \o Text(<< <<"/*", "===", "end", "include", "===", "*/">> >>),
        !.data_steps = [i \in DOMAIN @ |-> ShiftDataStep(@[i], 1)],
        !.proc_sqls = [i \in DOMAIN @ |-> ShiftProcSql(@[i], 1)]]

\* the files NamedTemporaryFile(suffix=".sas", delete=False) can give: a
\* file that is kept, so no name is given twice
TempFiles ==
    { [path |-> "/tmp/tmpx.sas", stem |-> <<"t", "m", "p", "x">>],
      [path |-> "/tmp/tmpy.sas", stem |-> <<"t", "m", "p", "y">>] }

\* instrument_sas_code: the text is written to the temporary file f and
\* instrument_sas_file extracts and instruments that file
instrument_sas_code(code, f) ==
    instrument_sas_file([code EXCEPT !.path = f.path, !.stem = f.stem])

\* parse_sas_project: the points of the resolved text of the entry file, the
\* prefix of the ids derived from the identity of the source unit
parse_sas_project(file) ==
    [parse_sas_file(resolved_code(file)) EXCEPT !.file_path = file.path]

ResolvedFileLists ==
    { <<>>, <<FileA>>, <<FileA2>>, <<FileA, FileB>>,
      <<FileNoPoints, FileA>>, <<FileMissing, FileB>> }

\* call_result: the temporary files written so far
ResolvedInit ==
    /\ pc = "start"
    /\ log_text = <<>>
    /\ expected_points = <<>>
    /\ report = DefaultReport
    /\ file_reports = <<>>
    /\ merged = DefaultReport
    /\ sas_files \in ResolvedFileLists
    /\ max_iterations \in 0..MaxIter
    /\ coverage_target \in Targets
    /\ dry_run \in BOOLEAN
    /\ unit = 0
    /\ parse_result = NoParseResult
    /\ datasets = <<>>
    /\ iteration = 0
    /\ all_reports = <<>>
    /\ exit_code = 0
    /\ target_reached = FALSE
    /\ sas_runs = 0
    /\ mutations = 0
    /\ mutated_out = <<>>
    /\ executed = <<>>
    /\ return_code = 0
    /\ effects = [u \in DOMAIN sas_files |-> {}]
    /\ call_args = <<"include_paths">>
    /\ call_result = {}

\* the next file is parsed with its includes resolved and has no coverage
\* point: continue
SkipNoPointsResolved ==
    /\ pc = "next_unit"
    /\ unit < Len(sas_files)
    /\ sas_files[unit + 1].exists
    /\ LET result == parse_sas_project(sas_files[unit + 1])
       IN  /\ ~has_coverage_points(result)
           /\ parse_result' = result
    /\ unit' = unit + 1
    /\ effects' = [effects EXCEPT ![unit + 1] = @ \cup {"parse"}]
    /\ UNCHANGED <<pc, log_text, expected_points, report, file_reports, merged,
                   options, datasets, iteration, all_reports, exit_code,
                   unit_history>>

\* `if use_project or include_paths`: the includes are resolved once more and
\* the resolved text is instrumented by instrument_sas_code
UnitSetupResolved ==
    /\ pc = "next_unit"
    /\ unit < Len(sas_files)
    /\ sas_files[unit + 1].exists
    /\ \E f \in TempFiles \ call_result :
          LET sas_file == sas_files[unit + 1]
              result == parse_sas_project(sas_file)
          IN  /\ has_coverage_points(result)
              /\ parse_result' = result
              /\ expected_points' =
                    instrument_sas_code(resolved_code(sas_file), f).coverage_points
              /\ datasets' = generate_seed_datasets(result, NumRows)
              /\ call_result' = call_result \cup {f}
    /\ unit' = unit + 1
    /\ file_reports' = <<>>
    /\ iteration' = 0
    /\ pc' = IF 0 < max_iterations THEN "export" ELSE "final"
    /\ effects' = [effects EXCEPT ![unit + 1] = @ \cup {"parse", "instrument", "seed"}]
    /\ UNCHANGED <<log_text, report, merged, sas_files, max_iterations,
                   coverage_target, dry_run, call_args, all_reports, exit_code,
                   unit_history>>

ResolvedNext ==
    \/ NoFiles
    \/ Resolve
    \/ SkipMissing
    \/ SkipNoPointsResolved
    \/ UnitSetupResolved
    \/ ExportIteration
    \/ ExportRaises
    \/ RunSas
    \/ RunSasDry
    \/ RunSasRaises
    \/ Measure
    \/ Mutate
    \/ Final
    \/ Summary

ResolvedSpec == ResolvedInit /\ [][ResolvedNext]_vars

\* the ids of the points of a parse result, block by block
BlocksWith(result, id) ==
    {b \in DOMAIN result.blocks :
        id \in ExpectedIds(result.blocks[b].coverage_points)}

InUnit == pc \in {"export", "run_sas", "measure", "mutate", "final"}

\* C21: while the loop of a unit runs, every id the instrumenter expects and
\* every id a report of the unit refers to is the id of a point of exactly
\* one block of the parse result handed to the seed generator and the
\* mutator; a unit whose instrumentation and parse result do not share their
\* ids never gets into its loop.
C21_SamePass ==
    InUnit =>
        /\ \A id \in ExpectedIds(expected_points) :
              Cardinality(BlocksWith(parse_result, id)) = 1
        /\ \A r \in DOMAIN file_reports :
              \A id \in ReportIds(file_reports[r]) :
                 Cardinality(BlocksWith(parse_result, id)) = 1
        /\ \A id \in ReportIds(merged) :
              Cardinality(BlocksWith(parse_result, id)) = 1

--------------------------------------------------------------------------
(* sas_instrumenter.py: the instrumenter applied twice to the same text,  *)
(* through instrument_sas_file or through instrument_sas_code.            *)
(* call_args is the text and the function, call_result the results of the *)
(* calls made so far.                                                     *)

RepeatInit ==
    /\ pc = "rep_call"
    /\ CovIdle
    /\ RunIdleButCall
    /\ call_args \in [file : InstrumentFiles, via : {"file", "code"}]
    /\ call_result = <<>>

\* instrument_sas_file(file_path)
RepeatFile ==
    /\ pc = "rep_call"
    /\ call_args.via = "file"
    /\ call_result' = Append(call_result, instrument_sas_file(call_args.file))
    /\ pc' = IF Len(call_result) = 1 THEN "rep_done" ELSE "rep_call"
    /\ UNCHANGED <<cov_vars_but_pc, run_vars_but_call, call_args>>

\* instrument_sas_code(code): a new temporary file at every call
RepeatCode ==
    /\ pc = "rep_call"
    /\ call_args.via = "code"
    /\ \E f \in TempFiles :
          /\ \A i \in DOMAIN call_result : call_result[i].original_path # f.path
          /\ call_result' = Append(call_result, instrument_sas_code(call_args.file, f))
    /\ pc' = IF Len(call_result) = 1 THEN "rep_done" ELSE "rep_call"
    /\ UNCHANGED <<cov_vars_but_pc, run_vars_but_call, call_args>>

RepeatNext == RepeatFile \/ RepeatCode

RepeatSpec == RepeatInit /\ [][RepeatNext]_vars

\* C22: two runs of the instrumenter on the same text, through either
\* function, give the same instrumented code and the same list of coverage
\* points, ids included.
C22_Deterministic ==
    pc = "rep_done" =>
        /\ call_result[1].instrumented_code = call_result[2].instrumented_code
        /\ call_result[1].coverage_points = call_result[2].coverage_points

--------------------------------------------------------------------------
(* Failures in the loop of a unit *)

\* C23: a failure to write the tables of an iteration ends that iteration
\* only: the step taken where the tables of the iteration are exported never
\* leaves the command, it goes on to the interpreter run, to the next
\* iteration or to the final report of the unit, and the reports the unit and
\* the command have so far are kept.
C23_ExportFailure ==
    [][pc = "export" =>
          /\ pc' \in {"run_sas", "export", "final"}
          /\ file_reports' = file_reports
          /\ all_reports' = all_reports]_vars

\* C24: a run that timed out or returned a code other than 0 is handled as
\* any run: its log, whatever it holds, is parsed against the expected
\* points, the report is appended to the reports of the unit with
\* is_complete true exactly when the log holds the sentinel, the merged
\* percentage is compared with the target, and the loop goes on to the
\* mutation or ends by its break; every run of the unit has its report.
C24_RunFailure ==
    /\ []( /\ pc = "measure" => Len(file_reports) + 1 = sas_runs
           /\ pc \in {"mutate", "export", "run_sas"} => Len(file_reports) = sas_runs
           /\ (pc = "final" /\ max_iterations > 0) => Len(file_reports) = sas_runs )
    /\ [][pc = "measure" =>
             /\ report' = parse_coverage_from_log(log_text, expected_points)
             /\ report'.is_complete = (\E i \in DOMAIN log_text : log_text[i] = CompleteLine)
             /\ report'.hit_point_ids =
                   {id \in ExpectedIds(expected_points) :
                       \E i \in DOMAIN log_text : log_text[i] = Marker(id)}
             /\ file_reports' = Append(file_reports, report')
             /\ pc' = IF PctGE(coverage_pct(merge_coverage_reports(file_reports')),
                               coverage_target)
                      THEN "final" ELSE "mutate"]_vars
    /\ [][pc = "mutate" =>
             /\ mutations' = mutations + 1
             /\ \E order \in Orders(merged.missed_point_ids),
                   extreme \in [1..MaxColumns(datasets) -> ExtremeValues] :
                   datasets' = mutate_datasets(datasets, merged, order, extreme)]_vars

\* C24 witness: the second run of a unit timed out after it reached a point
\* and before the sentinel; its report is the second of the unit and the
\* loop is about to mutate.
C24_Witness ==
    /\ pc = "mutate"
    /\ return_code = -1
    /\ sas_runs = 2
    /\ Len(file_reports) = 2
    /\ ~report.is_complete
    /\ report.hit_points > 0

--------------------------------------------------------------------------
(* include_resolver.py: resolve_includes.  call_args is the project: the  *)
(* lines of each of its files, a line being program text or an %INCLUDE   *)
(* directive; call_result is the state of the resolver: visited,          *)
(* output_lines, result.errors, result.included_files and the stack of    *)
(* the _resolve_file calls that have not returned, each with the index of *)
(* the line its loop is at.                                               *)

MaxIncLines == 2      \* the lines of a file of the project

max_depth == 20

IncFiles == {"a", "b"}

\* the paths a directive can name: the files of the project and a path
\* _find_include_file finds nowhere
IncTargets == IncFiles \cup {"m"}

CodeLine == [kind |-> "code"]
IncludeLine(target) == [kind |-> "include", target |-> target]

IncLines == {CodeLine} \cup {IncludeLine(t) : t \in IncTargets}

Projects == [IncFiles -> UNION {[1..n -> IncLines] : n \in 0..MaxIncLines}]

\* the lines resolve_includes writes
BeginLine(file) == [kind |-> "begin", file |-> file]
EndLine(file) == [kind |-> "end", file |-> file]
ResolvedLine(target) == [kind |-> "resolved", file |-> target]
SkippedLine(file) == [kind |-> "skipped", file |-> file]
NotFoundLine(target) == [kind |-> "not_found", file |-> target]
\* a line of a file, copied
Copied(file, i, line) == [kind |-> "copy", file |-> file, index |-> i, line |-> line]

CircularError(file) == [error |-> "Circular include detected", file |-> file]
DepthError(file) == [error |-> "Max include depth exceeded", file |-> file]
NotFoundError(target, file) ==
    [error |-> "Include file not found", file |-> target, referenced_in |-> file]

\* `if file_key in visited`
AlreadyVisited_never(file_key, visited) == FALSE

AlreadyVisited(file_key, visited) == file_key \in visited

\* _find_include_file: the file of that path, "" for None
_find_include_file(target) == IF target \in IncFiles THEN target ELSE ""

Frame(file, i) == [file |-> file, i |-> i]

\* _resolve_file(file_path, depth) up to the loop over the lines of the file:
\* called from the state st, where the stack holds depth frames
EnterFile(st, file) ==
    IF AlreadyVisited(file, st.visited)
    THEN [st EXCEPT !.errors = Append(@, CircularError(file)),
                    !.output_lines = Append(@, SkippedLine(file))]
    ELSE IF Len(st.stack) > max_depth
    THEN [st EXCEPT !.errors = Append(@, DepthError(file))]
    ELSE [st EXCEPT !.visited = @ \cup {file},
                    !.included_files = Append(@, file),
                    !.output_lines = Append(@, BeginLine(file)),
                    !.stack = Append(@, Frame(file, 1))]

\* the frame on top of the stack moved to its next line
Advance(st) == [st EXCEPT !.stack[Len(st.stack)].i = @ + 1]

\* one step of the innermost _resolve_file call: the line its loop is at, or
\* the end of the loop and the return
StepFile(st, files) ==
    LET top == st.stack[Len(st.stack)]
        lines == files[top.file]
    IN  IF top.i > Len(lines)
        THEN [st EXCEPT !.output_lines = Append(@, EndLine(top.file)),
                        !.stack = SubSeq(@, 1, Len(@) - 1)]
        ELSE LET line == lines[top.i]
             IN  IF line.kind # "include"
                 THEN [Advance(st) EXCEPT
                          !.output_lines = Append(@, Copied(top.file, top.i, line))]
                 ELSE LET found == _find_include_file(line.target)
                      IN  IF found # ""
                          THEN EnterFile(
                                  [Advance(st) EXCEPT
                                      !.output_lines = Append(@, ResolvedLine(line.target))],
                                  found)
                          ELSE [Advance(st) EXCEPT
                                   !.errors = Append(@, NotFoundError(line.target, top.file)),
                                   !.output_lines =
                                       @ \o << NotFoundLine(line.target),
                                               Copied(top.file, top.i, line) >>]

NoResolver ==
    [visited |-> {}, included_files |-> <<>>, output_lines |-> <<>>,
     errors |-> <<>>, stack |-> <<>>]

ResolveInit ==
    /\ pc = "inc_start"
    /\ CovIdle
    /\ RunIdleButCall
    /\ call_args \in Projects
    /\ call_result = NoResolver

\* resolve_includes(entry_file): _resolve_file(entry_file, depth=0)
ResolveEntry ==
    /\ pc = "inc_start"
    /\ call_result' = EnterFile(call_result, "a")
    /\ pc' = "inc_file"
    /\ UNCHANGED <<cov_vars_but_pc, run_vars_but_call, call_args>>

ResolveStep ==
    /\ pc = "inc_file"
    /\ call_result.stack # <<>>
    /\ call_result' = StepFile(call_result, call_args)
    /\ UNCHANGED <<pc, cov_vars_but_pc, run_vars_but_call, call_args>>

\* the outermost call has returned: resolved_code is joined and returned
ResolveReturn ==
    /\ pc = "inc_file"
    /\ call_result.stack = <<>>
    /\ pc' = "inc_done"
    /\ UNCHANGED <<cov_vars_but_pc, run_vars_but_call, call_vars>>

ResolveNext == ResolveEntry \/ ResolveStep \/ ResolveReturn

ResolveSpec == ResolveInit /\ [][ResolveNext]_vars

\* what is left to do: the lines of the files not yet visited, the lines the
\* calls on the stack have not yet taken, and the returns
RECURSIVE UnvisitedWork(_, _)
UnvisitedWork(files, left) ==
    IF left = {} THEN 0
    ELSE LET f == CHOOSE x \in left : TRUE
         IN  Len(files[f]) + 2 + UnvisitedWork(files, left \ {f})

RECURSIVE StackWork(_, _)
StackWork(files, stack) ==
    IF stack = <<>> THEN 0
    ELSE Len(files[Head(stack).file]) + 2 - Head(stack).i + StackWork(files, Tail(stack))

ResolveRank ==
    UnvisitedWork(call_args, IncFiles \ call_result.visited)
    + StackWork(call_args, call_result.stack)
    + (IF pc = "inc_done" THEN 0 ELSE 1)

CountOf(seq, x) == Cardinality({i \in DOMAIN seq : seq[i] = x})

\* the innermost call is at a directive that names a file already visited
AtCircular ==
    /\ pc = "inc_file"
    /\ call_result.stack # <<>>
    /\ LET top == call_result.stack[Len(call_result.stack)]
       IN  /\ top.i <= Len(call_args[top.file])
           /\ call_args[top.file][top.i].kind = "include"
           /\ call_args[top.file][top.i].target \in call_result.visited

\* C25: resolve_includes terminates on every project, cycles included: every
\* step takes from what is left to do and a step is possible until the
\* function has returned; a directive that names a file already visited adds
\* one error and one marker comment for that file and the loop goes on with
\* the next line of the including file; every file is inlined at most once,
\* and when the function returns every line of a visited file that is not a
\* resolved directive has been copied.
C25_ResolveTerminates ==
    /\ [][ResolveRank' < ResolveRank]_vars
    /\ []( /\ ResolveRank >= 0
           /\ pc # "inc_done" => ENABLED ResolveNext
           /\ \A f \in IncFiles :
                 /\ CountOf(call_result.output_lines, BeginLine(f)) <= 1
                 /\ CountOf(call_result.included_files, f) <= 1
                 /\ CountOf(call_result.output_lines, SkippedLine(f))
                       = CountOf(call_result.errors, CircularError(f))
                 /\ \A i \in DOMAIN call_args[f] :
                       CountOf(call_result.output_lines,
                               Copied(f, i, call_args[f][i])) <= 1
           /\ pc = "inc_done" =>
                 \A f \in call_result.visited : \A i \in DOMAIN call_args[f] :
                    LET line == call_args[f][i]
                    IN  IF line.kind = "include" /\ line.target \in IncFiles
                        THEN CountOf(call_result.output_lines, Copied(f, i, line)) = 0
                        ELSE CountOf(call_result.output_lines, Copied(f, i, line)) = 1 )
    /\ [][AtCircular =>
             LET top == call_result.stack[Len(call_result.stack)]
                 target == call_args[top.file][top.i].target
             IN  /\ call_result'.output_lines =
                       call_result.output_lines \o <<ResolvedLine(target), SkippedLine(target)>>
                 /\ call_result'.errors = Append(call_result.errors, CircularError(target))
                 /\ call_result'.visited = call_result.visited
                 /\ call_result'.stack =
                       [call_result.stack EXCEPT ![Len(call_result.stack)].i = top.i + 1]
                 /\ pc' = "inc_file"]_vars

\* C25 witness: a.sas includes b.sas, b.sas includes a.sas and goes on with a
\* line of text; the function has returned, the marker of the circular
\* include is in the resolved text and the line after the directive follows it.
C25_Witness ==
    /\ pc = "inc_done"
    /\ call_args["a"] = <<IncludeLine("b")>>
    /\ call_args["b"] = <<IncludeLine("a"), CodeLine>>
    /\ call_result.errors = <<CircularError("a")>>
    /\ call_result.output_lines =
          << BeginLine("a"), ResolvedLine("b"), BeginLine("b"), ResolvedLine("a"),
             SkippedLine("a"), Copied("b", 2, CodeLine), EndLine("b"), EndLine("a") >>

--------------------------------------------------------------------------
(* sas_parser.py: _strip_comments.  The text is a sequence of characters; *)
(* call_args is the text, call_result the text the function returns.      *)

MaxCodeLen == 5       \* the characters of a text handed to _strip_comments

NL == "\n"

\* a letter, the four characters the two patterns name, the two kinds of
\* white space
CodeChars == {"x", "/", "*", ";", " ", NL}

IsSpace(c) == c \in {" ", NL}

\* [^\n] replaced by a space
BlankKeepNewline(c) == IF c = NL THEN NL ELSE " "

\* any character replaced by a space: " " * len(m.group(0))
BlankAll(c) == " "

\* the least j >= from with code[j] = a and code[j + 1] = b, 0 if none
FindPair(code, from, a, b) ==
    LET at == {j \in from..(Len(code) - 1) : code[j] = a /\ code[j + 1] = b}
    IN  IF at = {} THEN 0 ELSE CHOOSE j \in at : \A k \in at : j <= k

\* _BLOCK_COMMENT_RE.sub(_block_replacer, code), from the character i on:
\* /\*.*?\*/ with DOTALL, the matches taken from left to right
RECURSIVE BlockSub(_, _)
BlockSub(code, i) ==
    IF i > Len(code) THEN <<>>
    ELSE LET close == IF i < Len(code) /\ code[i] = "/" /\ code[i + 1] = "*"
                      THEN FindPair(code, i + 2, "*", "/") ELSE 0
         IN  IF close = 0
             THEN <<code[i]>> \o BlockSub(code, i + 1)
             ELSE [k \in 1..(close + 2 - i) |-> BlankKeepNewline(code[i + k - 1])]
                  \o BlockSub(code, close + 2)

\* (?m)^ : the start of the text or the character after a newline
AtLineStart(code, i) == i = 1 \/ code[i - 1] = NL

\* the end of the match of ^\s*\*[^;]*; that starts at i, 0 if there is none:
\* the white space from i on, newlines among it, then `*`, then the first `;`
LineCommentEnd(code, i) ==
    IF ~AtLineStart(code, i) THEN 0
    ELSE LET rest == {j \in i..Len(code) : ~IsSpace(code[j])}
         IN  IF rest = {} THEN 0
             ELSE LET star == CHOOSE j \in rest : \A k \in rest : j <= k
                      semis == {j \in (star + 1)..Len(code) : code[j] = ";"}
                  IN  IF code[star] # "*" \/ semis = {} THEN 0
                      ELSE CHOOSE j \in semis : \A k \in semis : j <= k

\* _LINE_COMMENT_RE.sub(lambda m: " " * len(m.group(0)), result)
RECURSIVE LineSub(_, _)
LineSub(code, i) ==
    IF i > Len(code) THEN <<>>
    ELSE LET end == LineCommentEnd(code, i)
         IN  IF end = 0
             THEN <<code[i]>> \o LineSub(code, i + 1)
             ELSE [k \in 1..(end + 1 - i) |-> BlankAll(code[i + k - 1])]
                  \o LineSub(code, end + 1)

_strip_comments(code) == LineSub(BlockSub(code, 1), 1)

StripInit ==
    /\ pc = "strip_call"
    /\ CovIdle
    /\ RunIdleButCall
    /\ call_args \in UNION {[1..n -> CodeChars] : n \in 0..MaxCodeLen}
    /\ call_result = <<>>

StripCall ==
    /\ pc = "strip_call"
    /\ call_result' = _strip_comments(call_args)
    /\ pc' = "strip_done"
    /\ UNCHANGED <<cov_vars_but_pc, run_vars_but_call, call_args>>

StripNext == StripCall

StripSpec == StripInit /\ [][StripNext]_vars

\* C26: the text _strip_comments returns has the length of the text it was
\* given and a newline exactly where that text has one, whatever comments
\* the text holds.
C26_LineStructure ==
    pc = "strip_done" =>
        /\ Len(call_result) = Len(call_args)
        /\ \A i \in DOMAIN call_args : (call_args[i] = NL) <=> (call_result[i] = NL)

--------------------------------------------------------------------------
(* The order of the insertions and of the blocks *)

SortedBlocks == SortBlocks(parse_result.blocks)

\* code_lines when the loop of instrument_sas_file takes the k-th block of
\* blocks_sorted: the first k - 1 blocks are rewritten
CodeBefore(k) == InstrumentBlocks(SubSeq(SortedBlocks, 1, k - 1), call_args.lines)

\* code_lines[block.start_line - 1 : block.end_line]
SliceOf(code_lines, block) ==
    SubSeq(code_lines, Min(block.start_line - 1, Len(code_lines)) + 1,
           Min(block.end_line, Len(code_lines)))

\* the insertions of a block after insertions.sort
InsertionsOf(block, lines) ==
    SortInsertions(IF block.block_type = "DATA_STEP"
                   THEN DataStepInsertions(block.coverage_points, block, lines)
                   ELSE ProcSqlInsertions(block.coverage_points, block, lines))

RewrittenBlock(block, lines) ==
    IF block.block_type = "DATA_STEP" THEN _instrument_data_step(block, lines)
    ELSE _instrument_proc_sql(block, lines)

\* the lines of the original text among the first n lines of a text
OriginalsIn(text, n) == Cardinality({i \in 1..n : IsOriginalLine(text[i])})

\* C27: the insertions of a block are applied from the largest index to the
\* smallest, and in the rewritten block every inserted line of index i
\* stands after exactly i lines of the block, that is before the line that
\* had index i with only inserted lines of the same index between, or after
\* the last line when i is the number of lines; the blocks are rewritten from
\* the largest start_line to the smallest, and when a block is taken the
\* lines of its span and of the span of every block still to be rewritten
\* are those of the original file.
C27_PositionPreserving ==
    pc = "ins_done" =>
        /\ \A k \in 1..(Len(SortedBlocks) - 1) :
              SortedBlocks[k].start_line >= SortedBlocks[k + 1].start_line
        /\ \A k \in DOMAIN SortedBlocks :
              LET block == SortedBlocks[k]
                  lines == SliceOf(CodeBefore(k), block)
                  ins == InsertionsOf(block, lines)
                  out == RewrittenBlock(block, lines)
              IN  /\ \A j \in k..Len(SortedBlocks) :
                        SliceOf(CodeBefore(k), SortedBlocks[j])
                           = SliceOf(call_args.lines, SortedBlocks[j])
                  /\ \A x \in 1..(Len(ins) - 1) : ins[x].at >= ins[x + 1].at
                  /\ Len(out) = Len(lines) + Len(ins)
                  /\ \A x \in DOMAIN ins :
                        \E pos \in DOMAIN out :
                           /\ out[pos] = ins[x].line
                           /\ OriginalsIn(out, pos) = Min(ins[x].at, Len(lines))

\* C27 witness: a file of two blocks has been instrumented, and a block of it
\* got insertions at two different indices, collected smallest first.
C27_Witness ==
    /\ pc = "ins_done"
    /\ Len(SortedBlocks) = 2
    /\ SortedBlocks[1].start_line > SortedBlocks[2].start_line
    /\ parse_result.blocks[1].start_line < parse_result.blocks[2].start_line
    /\ \E k \in DOMAIN SortedBlocks :
          LET block == SortedBlocks[k]
              lines == SliceOf(CodeBefore(k), block)
              collected == DataStepInsertions(block.coverage_points, block, lines)
          IN  /\ block.block_type = "DATA_STEP"
              /\ Len(collected) >= 3
              /\ collected[1].at < collected[2].at

--------------------------------------------------------------------------
(* sas_instrumenter.py: the synthetic else of an IF ... THEN DO without    *)
(* ELSE.  The programs are one DATA step whose first statement is the IF   *)
(* and whose other lines open and close DO blocks in every order.          *)

MaxBody == 3

\* ` if age > 65 then do; grp = 1; end;`: the END on the line of the THEN DO
StmtIfDoEnd ==
    Stmt(<< <<"if", "age", ">", "65", "then", "do", ";", "grp", "=", "1", ";",
              "end", ";">> >>, <<35>>, 1, 1)

\* the head of ` if age > 65 then do;`, `  grp = 1;`, ` end;`
StmtIfDoOpen ==
    Stmt(<< <<"if", "age", ">", "65", "then", "do", ";">> >>, <<21>>, 1, 1)

\* `  do i = 1 to 3;`
StmtDo == Stmt(<< <<"do", "i", "=", "1", "to", "3", ";">> >>, <<16>>, 0, 0)

\* ` end;`
StmtEnd == Stmt(<< <<"end", ";">> >>, <<5>>, 0, 0)

\* `  do i = 1 to 3; x = i; end;`
StmtDoEnd ==
    Stmt(<< <<"do", "i", "=", "1", "to", "3", ";", "x", "=", "i", ";", "end", ";">> >>,
         <<28>>, 0, 0)

\* ` end; do i = 1 to 3;`
StmtEndDo ==
    Stmt(<< <<"end", ";", "do", "i", "=", "1", "to", "3", ";">> >>, <<20>>, 0, 0)

\* `  x = 1; end; end;`
StmtEndEnd ==
    Stmt(<< <<"x", "=", "1", ";", "end", ";", "end", ";">> >>, <<18>>, 0, 0)

DoHeads == {StmtIfDoOpen, StmtIfDoEnd}

DoBodies == {StmtAssign, StmtDo, StmtEnd, StmtDoEnd, StmtEndDo, StmtEndEnd}

DoEndFiles ==
    {Program([tokens |-> <<"data", "out", ";">>, width |-> 9], <<head>> \o body) :
        head \in DoHeads, body \in SeqsUpTo(DoBodies, MaxBody)}

DoEndInit ==
    /\ pc = "ins_input"
    /\ CovIdle
    /\ RunIdleButCall
    /\ call_args \in DoEndFiles
    /\ call_result = <<>>

DoEndSpec == DoEndInit /\ [][InstrumentNext]_vars

\* the line of the END; that closes the DO opened before token k of line l,
\* the words taken one by one in their order, or 0 when nothing closes it
RECURSIVE ClosingEnd(_, _, _, _)
ClosingEnd(lines, l, k, depth) ==
    IF l > Len(lines) THEN 0
    ELSE IF k > Len(lines[l].tokens) THEN ClosingEnd(lines, l + 1, 1, depth)
    ELSE LET tokens == lines[l].tokens
         IN  IF tokens[k] = "do" THEN ClosingEnd(lines, l, k + 1, depth + 1)
             ELSE IF tokens[k] = "end" /\ k < Len(tokens) /\ tokens[k + 1] = ";"
             THEN IF depth = 1 THEN l ELSE ClosingEnd(lines, l, k + 1, depth - 1)
             ELSE ClosingEnd(lines, l, k + 1, depth)

\* the line of the IF ... THEN DO of the program and the place of its DO
ThenDoLine == CHOOSE l \in DOMAIN call_args.lines : HasPair(call_args.lines[l], "then", "do")

ThenDoToken ==
    CHOOSE k \in DOMAIN call_args.lines[ThenDoLine].tokens :
        /\ call_args.lines[ThenDoLine].tokens[k] = "do"
        /\ call_args.lines[ThenDoLine].tokens[k - 1] = "then"

\* the line that holds the END; matching the THEN DO, or 0
MatchingEndLine == ClosingEnd(call_args.lines, ThenDoLine, ThenDoToken + 1, 1)

\* the places of the synthetic else lines in the instrumented program
ElseMarkers ==
    {p \in DOMAIN InstrumentedBody : InstrumentedBody[p].tokens = ElsePutStatement(<<>>).tokens}

\* C28: when the DO of an IF ... THEN DO without ELSE has a matching END;,
\* the instrumented program holds the synthetic else exactly once, directly
\* after the line of that END;, whatever DO blocks are nested in the block,
\* also when the END; is on the line of the THEN DO and when a line holds
\* both a DO and an END;
C28_ElseAfterMatchingEnd ==
    (pc = "ins_done" /\ MatchingEndLine # 0)
        => /\ Cardinality(ElseMarkers) = 1
           /\ \A p \in ElseMarkers :
                 /\ p > 1
                 /\ IsOriginalLine(InstrumentedBody[p - 1])
                 /\ OriginalsIn(InstrumentedBody, p - 1) = MatchingEndLine

\* a block nested in the THEN DO block, closed before the matching END;
C28_Nested ==
    /\ pc = "ins_done"
    /\ MatchingEndLine > ThenDoLine + 2
    /\ \E l \in (ThenDoLine + 1)..(MatchingEndLine - 1) : HasWord(call_args.lines[l], "do")
    /\ Cardinality(ElseMarkers) = 1
    /\ \A p \in ElseMarkers : OriginalsIn(InstrumentedBody, p - 1) = MatchingEndLine

--------------------------------------------------------------------------
(* coverage.py: the shape of every report that parse_coverage_from_log and *)
(* merge_coverage_reports return, the merged reports fed to later merges.  *)

WellFormed(r) ==
    /\ r.hit_point_ids \cap r.missed_point_ids = {}
    /\ r.hit_points = Cardinality(r.hit_point_ids)
    /\ r.total_points = Cardinality(r.hit_point_ids \cup r.missed_point_ids)
    /\ 0 <= r.hit_points
    /\ r.hit_points <= r.total_points
    /\ coverage_pct(r)[2] > 0
    /\ 0 <= coverage_pct(r)[1]
    /\ coverage_pct(r)[1] <= 100 * coverage_pct(r)[2]
    /\ r.total_points = 0 => coverage_pct(r)[1] = 0

\* C29: every report that a sequence of parse_coverage_from_log and
\* merge_coverage_reports calls produces is well formed: its hit and missed
\* ids are disjoint, hit_points is the number of hit ids, total_points the
\* number of hit and missed ids together, so 0 <= hit_points <= total_points
\* and coverage_pct lies between 0 and 100 and is 0 for no points.
C29_WellFormed ==
    /\ \A i \in DOMAIN file_reports : WellFormed(file_reports[i])
    /\ WellFormed(merged)

\* C29 witness: a merge of two reports, the first missing a point that the
\* second hit, the second missing a point that the first did not hit.
C29_Witness ==
    /\ pc = "merged"
    /\ Len(file_reports) = 2
    /\ \E p \in file_reports[1].missed_point_ids :
          /\ p \in file_reports[2].hit_point_ids
          /\ p \in merged.hit_point_ids
    /\ file_reports[2].missed_point_ids \ file_reports[1].hit_point_ids # {}
    /\ merged.hit_points < merged.total_points

--------------------------------------------------------------------------
(* cli.py: the datasets that go to the directory `final`, by the way the   *)
(* loop of the unit ended.                                                 *)

\* the datasets without the path export_dataset wrote them to
Content(dss) == [d \in DOMAIN dss |-> [dss[d] EXCEPT !.csv_path = NoPath]]

\* the loop of the unit ran and was left by its break
EndedByTarget == pc = "final" /\ sas_runs > 0 /\ target_reached

\* the loop of the unit ran and ended with range(max_iterations)
EndedByExhaustion == pc = "final" /\ sas_runs > 0 /\ ~target_reached

\* C30: when the loop stops because the target is reached, the datasets
\* exported as final are the datasets the last iteration executed; when it
\* stops with max_iterations exhausted and the target unmet, mutate_datasets
\* was called once more after the last measurement and the final datasets
\* are its result, datasets that no iteration has executed.
C30_FinalDatasets ==
    /\ EndedByTarget => (datasets = executed /\ mutations = sas_runs - 1)
    /\ EndedByExhaustion
          => /\ datasets = mutated_out
             /\ mutations = sas_runs
             /\ sas_runs = max_iterations
             /\ Len(file_reports) = sas_runs
             /\ Content(datasets) # Content(executed)

\* C30 as the code has it: after the break the final datasets are the
\* datasets the last iteration executed; after max_iterations iterations
\* with the target unmet they are what the mutation after the last
\* measurement returned, with no run after it, and they differ from the
\* datasets the last iteration executed exactly when that mutation added a
\* row to one of them.
C30_FinalDatasetsAmended ==
    /\ [](EndedByTarget => (datasets = executed /\ mutations = sas_runs - 1))
    /\ [](EndedByExhaustion
             => /\ datasets = mutated_out
                /\ mutations = sas_runs
                /\ sas_runs = max_iterations
                /\ Len(file_reports) = sas_runs
                /\ Len(datasets) = Len(executed)
                /\ (Content(datasets) # Content(executed))
                      <=> (RowCount(datasets) > RowCount(executed))
                /\ (Content(datasets) = Content(executed)) => datasets = executed)
    /\ [][(pc = "mutate" /\ pc' = "final")
             => /\ sas_runs' = sas_runs
                /\ executed' = executed
                /\ file_reports' = file_reports
                /\ mutations' = mutations + 1]_vars

\* C30 witness: max_iterations = 2 iterations with the target unmet; the
\* final datasets hold rows that the second mutation added and no run loaded.
C30_Witness ==
    /\ EndedByExhaustion
    /\ max_iterations = 2
    /\ mutations = 2
    /\ RowCount(datasets) > RowCount(executed)

\* the other end: the break in the second iteration, the final datasets
\* being those of the second run
C30_WitnessTarget ==
    /\ EndedByTarget
    /\ sas_runs = 2
    /\ mutations = 1
    /\ datasets = executed
    /\ datasets # <<>>

==========================================================================
